---- MODULE Spec2Model ----
(***************************************************************************)
(* Multi-actor orchestration (langchain-multiactor-v1 and -v2).            *)
(*                                                                         *)
(* The model covers CodeInterpreterAgent (the Actor: lazy initialization,  *)
(* one run of run_analysis with its status-polling loop, cleanup) and      *)
(* EnhancedOrchestrator (run_analysis: plan, execute, synthesize; cleanup) *)
(* with its OrchestratorContext.  The hosted assistant runtime is the      *)
(* environment: every answer of the backend is a nondeterministic input.   *)
(* The variable "version" selects the v1 or the v2 sources.                *)
(***************************************************************************)
EXTENDS Integers, Sequences, FiniteSets, TLC

\* ------------------------------------------------------------------ bounds
\* run_analysis calls (of the orchestrator, or direct ones) per behaviour
MaxOps == 2
\* plan steps executed per behaviour
MaxSteps == 2
\* caught exceptions counted by one polling loop
MaxPolls == 4
\* lines of a planning response
MaxPlanLen == 2
\* largest max_retries a direct caller passes
MaxRetriesArg == 2
\* backend calls that end in an exception or a failure status, per behaviour
MaxFaults == 1

\* ------------------------------------------------------------- program data
\* Python's None, and the ids of the backend: the n-th thread (file) made
\* on behalf of agent a is <<a, n>>, so no two threads (files) share an id
None == <<>>
ThreadId(a, n) == <<a, n>>
FileId(a, n) == <<a, n>>
AssistantId(a, n) == <<a, "assistant", n>>
RunId(thread_id) == <<"run">>
\* default of run_analysis(max_retries=...) in v1
DefaultMaxRetries == 3

\* the registered actors, in registration order (dict insertion order)
RegisteredActors == <<"customer_specialist", "organization_specialist">>
ActorNames == {RegisteredActors[i] : i \in 1..Len(RegisteredActors)}
\* the orchestrator's own planning/synthesis agent (v2)
Planner == "planner"
\* a stand-alone agent driven directly, as in tests/example_actor.py
Solo == "solo"
AgentNames == ActorNames \cup {Planner, Solo}

\* self.files of each agent
Files(a) ==
    CASE a = "customer_specialist" -> <<"customers-10000.csv">>
      [] a = "organization_specialist" -> <<"organizations-10000.csv">>
      [] a = Solo -> <<"customers-10000.csv", "organizations-10000.csv">>
      [] OTHER -> <<>>

\* run.status values of the backend
NonTerminal == {"queued", "in_progress", "requires_action"}
FailureStatuses == {"failed", "expired", "cancelled"}
Statuses == NonTerminal \cup FailureStatuses \cup {"completed"}

\* ---------------------------------------------------------------- helpers
Range(s) == {s[i] : i \in 1..Len(s)}

SeqsUpTo(S, n) == UNION {[1..k -> S] : k \in 0..n}

\* dict.get(key) on a record: None when the key is absent
Get(r, f) == IF f \in DOMAIN r THEN r[f] ELSE None

\* dict.get(key, default)
GetOr(r, f, default) == IF f \in DOMAIN r THEN r[f] ELSE default

IsPrefix(s, t) == Len(s) <= Len(t) /\ SubSeq(t, 1, Len(s)) = s

\* ------------------------------------------------------------- text model
\* A line is a sequence of tokens; a text is a sequence of lines.  The
\* tokens ":", "." and " " are the characters the plan parser looks at.
PlanLines ==
    { <<"1", ".", " ", "customer_specialist", ":", " ", "t1">>,
      <<"organization_specialist", ":", "t1">>,
      <<"data_engineer", ":", "t1">>,
      <<"customer_specialist", " ", "t1">> }

PlanResponses == SeqsUpTo(PlanLines, MaxPlanLen)

AnalysisText == << <<"analysis">> >>
\* what an assistant can say on a thread that already holds a turn
FollowUpText == << <<"follow-up", "\\">> >>

\* message.content parts of the backend
TextPart(t) == [kind |-> "text", value |-> t]
ImagePart == [kind |-> "image_file", value |-> <<>>]
OtherPart == [kind |-> "other", value |-> <<>>]

\* ----------------------------------------------------------------- state
VARIABLES
    version,      \* 1: langchain-multiactor-v1, 2: langchain-multiactor-v2
    agents,       \* per agent: assistant_id, file_mapping (insertion order)
    backend,      \* files uploaded per agent; thread ids handed to the direct caller
    context,      \* the orchestrator's OrchestratorContext
    call,         \* the frame of EnhancedOrchestrator.run_analysis
    run,          \* the frame of CodeInterpreterAgent.run_analysis
    ops,          \* number of run_analysis calls so far
    steps,        \* number of plan steps started so far
    faults,       \* number of failing backend answers so far
    trace,        \* events of the current orchestrator call, in order
    written,      \* what the current orchestrator call recorded by itself
    created,      \* threads the backend created per actor in this context
    lastCleanup,  \* what the latest cleanup did, until the next operation
    remote,       \* the backend's run as the next runs.retrieve will report it
    planner,      \* a QueryPlanner and its create_execution_plan calls
    router        \* the graph router (tests/multi-actor-orchestration.py)

vars == <<version, agents, backend, context, call, run, ops, steps, faults, trace,
          written, created, lastCleanup, remote, planner, router>>

\* what the orchestrator and a single agent leave alone
auxVars == <<remote, planner, router>>

\* OrchestratorContext.__init__
OrchestratorContext ==
    [threads |-> [a \in ActorNames |-> None],
     actor_results |-> [a \in ActorNames |-> <<>>],
     history |-> <<>>]

NoException == [msg |-> <<>>]
NoResult == [none |-> TRUE]

IdleRun ==
    [pc |-> "none", caller |-> "none", agent |-> Solo, query |-> <<>>,
     tidArg |-> None, thread_id |-> None, run_id |-> None,
     max_retries |-> DefaultMaxRetries, retries |-> 0, waited |-> FALSE,
     seen |-> "none", lastError |-> NoException,
     exc |-> NoException, result |-> NoResult]

\* dropped and after are observations: the actors whose thread id the
\* entry of the call discarded, and which cleanup came right before it
IdleCall ==
    [pc |-> "idle", maintain |-> TRUE, prompt |-> <<>>, plan |-> <<>>, i |-> 1,
     results |-> <<>>, exc |-> NoException, response |-> NoResult,
     dropped |-> {}, after |-> "none"]

NoCleanup == [kind |-> "none"]

\* status: the run's status at the backend; error: the next runs.retrieve
\* raises; tick alternates at every status check (a check is a step);
\* loop: which polling loop waits for the run
IdleRemote == [status |-> "queued", error |-> FALSE, tick |-> 0, loop |-> "agent"]
\* pc; hash_order: see HashOrders; the dict actor_capabilities as the
\* sequence of its items; regs: the register_actor calls made; response,
\* required, result: the last create_execution_plan; again: its second run
NoPlan == [kind |-> "none"]
IdlePlanner ==
    [pc |-> "idle", hash_order |-> <<>>, actor_capabilities |-> <<>>, regs |-> <<>>,
     response |-> <<>>, required |-> NoPlan, result |-> NoPlan,
     again |-> [fenced |-> FALSE, hash_order |-> <<>>, required |-> NoPlan,
                result |-> NoPlan]]
\* the graph state (messages, next, shared_thread), where the run is, and
\* the actor turns it has made
\* threads: the threads made in this run; last_call: the arguments of the
\* latest run_analysis call of an actor node and the thread it ran on
NoCall == [actor |-> "", query |-> <<>>, thread_id |-> None, ran_on |-> None]
IdleRouter ==
    [pc |-> "idle", messages |-> <<>>, next |-> "", shared_thread |-> None, turns |-> 0,
     threads |-> 0, last_call |-> NoCall, cleaned |-> <<>>]

Init ==
    /\ version \in {1, 2}
    /\ agents = [a \in AgentNames |-> [assistant_id |-> None, file_mapping |-> <<>>]]
    /\ backend = [files |-> [a \in AgentNames |-> 0],
                  assistants |-> [a \in AgentNames |-> 0],
                  threads |-> 0]
    /\ context = OrchestratorContext
    /\ call = IdleCall
    /\ run = IdleRun
    /\ ops = 0
    /\ steps = 0
    /\ faults = 0
    /\ trace = <<>>
    /\ written = OrchestratorContext
    /\ created = [a \in ActorNames |-> 0]
    /\ lastCleanup = NoCleanup
    /\ remote = IdleRemote
    /\ planner = IdlePlanner
    /\ router = IdleRouter

\* ------------------------------------------------------------- exceptions
\* Exception(f"Run failed with status: {status}")
RunFailedError(status) == [msg |-> <<"Run failed with status", status>>]
\* Exception("Max retries reached") raised inside the try block
MaxRetriesInner == [msg |-> <<"Max retries reached">>]
\* Exception(f"Max retries reached: {str(e)}")
MaxRetriesExceededError(e) == [msg |-> <<"Max retries reached">> \o e.msg]
\* an exception of the backend client (network, rate limit, ...)
APIError == [msg |-> <<"APIError">>]
\* result["content"] on a dict without that key
KeyError == [msg |-> <<"KeyError", "content">>]

IsRunFailed(e) == Len(e.msg) = 2 /\ e.msg[1] = "Run failed with status"
IsMaxRetries(e) == Len(e.msg) >= 1 /\ e.msg[1] = "Max retries reached"

\* ------------------------------------------------ CodeInterpreterAgent
\* _upload_file for the first k files of "files", in order: each upload
\* gets a fresh id and is recorded in file_mapping when it succeeds.
RECURSIVE UploadFiles(_, _, _, _, _)
UploadFiles(a, mapping, files, uploaded, k) ==
    IF k = 0 \/ files = <<>> THEN mapping
    ELSE UploadFiles(a, Append(mapping, [id |-> FileId(a, uploaded + 1),
                                         filename |-> Head(files)]),
                     Tail(files), uploaded + 1, k - 1)

\* an initialize() that records the uploads only when all of it succeeded
InitializeAllOrNothing(a, agent, files, uploaded, made, k, createOk) ==
    IF k < Len(files) \/ ~createOk
    THEN [agent |-> agent, uploaded |-> uploaded + k, made |-> made, raised |-> TRUE]
    ELSE [agent |-> [assistant_id |-> AssistantId(a, made + 1),
                     file_mapping |-> UploadFiles(a, agent.file_mapping, files,
                                                  uploaded, k)],
          uploaded |-> uploaded + k, made |-> made + 1, raised |-> FALSE]

\* initialize(): uploads every configured file, then creates the assistant;
\* it does not look at assistant_id or file_mapping first.
\* k is the number of uploads the backend accepts before one fails
\* (k = Len(files): all accepted); createOk: assistants.create succeeds;
\* uploaded, made: files uploaded and assistants created for a so far.
Initialize(a, agent, files, uploaded, made, k, createOk) ==
    LET mapping == UploadFiles(a, agent.file_mapping, files, uploaded, k)
    IN  IF k < Len(files) \/ ~createOk
        THEN [agent |-> [agent EXCEPT !.file_mapping = mapping],
              uploaded |-> uploaded + k, made |-> made, raised |-> TRUE]
        ELSE [agent |-> [assistant_id |-> AssistantId(a, made + 1),
                         file_mapping |-> mapping],
              uploaded |-> uploaded + k, made |-> made + 1, raised |-> FALSE]

\* run_analysis entry: "if not self.assistant_id: self.initialize()"
StartRun(caller, a, query, thread_id, max_retries) ==
    [IdleRun EXCEPT
        !.pc = IF agents[a].assistant_id = None THEN "init" ELSE "submit",
        !.caller = caller, !.agent = a, !.query = query,
        !.tidArg = thread_id, !.thread_id = thread_id,
        !.max_retries = max_retries]

Raise(r, e) == [r EXCEPT !.pc = "raised", !.exc = e]

ActorInitialize ==
    /\ run.pc = "init"
    /\ \E k \in 0..Len(Files(run.agent)), createOk \in BOOLEAN :
         LET a == run.agent
             r == Initialize(a, agents[a], Files(a), backend.files[a],
                             backend.assistants[a], k, createOk)
         IN  /\ r.raised => faults < MaxFaults
             /\ agents' = [agents EXCEPT ![a] = r.agent]
             /\ backend' = [backend EXCEPT !.files[a] = r.uploaded,
                                           !.assistants[a] = r.made]
             /\ faults' = IF r.raised THEN faults + 1 ELSE faults
             /\ run' = IF r.raised THEN Raise(run, APIError)
                       ELSE [run EXCEPT !.pc = "submit"]
    /\ UNCHANGED <<steps, version, context, call, ops, trace, written, created, lastCleanup>>
    /\ UNCHANGED auxVars

SetMax(S) == IF S = {} THEN 0 ELSE CHOOSE n \in S : \A m \in S : m <= n

\* the numbers of the thread ids of agent a that "ctx" holds
HeldThreads(ctx, a) ==
    IF a \notin ActorNames THEN {}
    ELSE (IF ctx.threads[a] = None THEN {} ELSE {ctx.threads[a][2]})
         \cup {Get(ctx.actor_results[a][j], "thread_id")[2] :
                 j \in {i \in 1..Len(ctx.actor_results[a]) :
                          Get(ctx.actor_results[a][i], "thread_id") # None}}

\* client.beta.threads.create(): an id nobody holds.  The direct caller may
\* hold every id it was handed, so its ids are numbered on; under the
\* orchestrator the ids held are those of the context, and the new id is
\* the first one past them.
NewThread(a) ==
    IF run.caller = "direct" THEN ThreadId(a, backend.threads + 1)
    ELSE ThreadId(a, 1 + SetMax(HeldThreads(context, a)))

\* threads.create() when no thread id was given, then messages.create and
\* runs.create.  outcome: which backend call fails, if any.
ActorSubmit ==
    /\ run.pc = "submit"
    /\ \E outcome \in {"ok", "thread_error", "post_error"} :
         LET a == run.agent
             fresh == run.thread_id = None
             made == fresh /\ outcome # "thread_error"
             tid == IF made THEN NewThread(a) ELSE run.thread_id
         IN  /\ (outcome = "thread_error") => fresh
             /\ (outcome # "ok") => faults < MaxFaults
             /\ faults' = IF outcome # "ok" THEN faults + 1 ELSE faults
             /\ backend' = IF made /\ run.caller = "direct"
                           THEN [backend EXCEPT !.threads = @ + 1]
                           ELSE backend
             /\ created' = IF made /\ run.caller = "step"
                           THEN [created EXCEPT ![a] = @ + 1]
                           ELSE created
             /\ run' = IF outcome = "ok"
                       THEN [run EXCEPT !.pc = "poll", !.thread_id = tid,
                                        !.run_id = RunId(tid)]
                       ELSE Raise([run EXCEPT !.thread_id = tid], APIError)
    /\ UNCHANGED <<steps, version, agents, context, call, ops, trace, written, lastCleanup>>
    /\ UNCHANGED auxVars

\* what runs.retrieve can answer: a status, or an exception of the client;
\* a run that reached a failure status stays in it.  Under the orchestrator
\* one status of each kind is tried, under a direct call all of them.
PollAnswers(r) ==
    IF r.seen \in FailureStatuses THEN {r.seen, "api_error"}
    ELSE IF r.caller = "direct" THEN Statuses \cup {"api_error"}
    ELSE {"in_progress", "failed", "completed", "api_error"}

\* v1: the except branch of the polling loop
OnPollException(r, e) ==
    LET n == r.retries + 1
        r1 == [r EXCEPT !.retries = n, !.lastError = e]
    IN  IF n = r.max_retries THEN Raise(r1, MaxRetriesExceededError(e))
        ELSE r1

\* v1: one iteration of "while True: try: ... except Exception as e: ..."
PollStepV1(r, answer) ==
    IF answer = "api_error" THEN OnPollException(r, APIError)
    ELSE IF answer = "completed" THEN [r EXCEPT !.pc = "fetch"]
    ELSE IF answer \in FailureStatuses THEN OnPollException(r, RunFailedError(answer))
    ELSE IF r.retries >= r.max_retries THEN OnPollException(r, MaxRetriesInner)
    ELSE r

\* v2: one iteration of "while True:" (no try, no retry counter)
PollStepV2(r, answer) ==
    IF answer = "api_error" THEN Raise(r, APIError)
    ELSE IF answer = "completed" THEN [r EXCEPT !.pc = "fetch"]
    ELSE IF answer \in FailureStatuses THEN Raise(r, RunFailedError(answer))
    ELSE r

PollStep(r, answer) ==
    IF version = 1 THEN PollStepV1(r, answer) ELSE PollStepV2(r, answer)

\* an answer is a new fault unless it repeats the failure status seen
IsFault(r, answer) ==
    answer = "api_error" \/ (answer \in FailureStatuses /\ r.seen = "none")

ActorPoll ==
    /\ run.pc = "poll"
    /\ run.retries < MaxPolls
    /\ \E answer \in PollAnswers(run) :
         LET r0 == [run EXCEPT !.waited = @ \/ (answer \in NonTerminal /\ run.caller = "direct"),
                               !.seen = IF answer \in FailureStatuses /\ @ = "none"
                                        THEN answer ELSE @]
         IN  /\ IsFault(run, answer) => faults < MaxFaults
             /\ faults' = IF IsFault(run, answer) THEN faults + 1 ELSE faults
             /\ run' = PollStep(r0, answer)
    /\ UNCHANGED <<steps, version, agents, backend, context, call, ops, trace, written,
                   created, lastCleanup>>
    /\ UNCHANGED auxVars

\* what messages.list(thread_id).data can hold (newest first) after a run
\* started by "caller": the assistant's text is a plan for the planner.
AssistantTexts(caller) ==
    IF caller = "plan" THEN PlanResponses ELSE {AnalysisText}

UserMessage == [role |-> "user", content |-> <<TextPart(<<>>)>>]
AssistantMessage(parts) == [role |-> "assistant", content |-> parts]

MessageLists(caller) ==
    {<<AssistantMessage(<<TextPart(t)>>), UserMessage>> : t \in AssistantTexts(caller)}
    \cup {<<UserMessage>>}
    \cup (IF caller = "direct"
          THEN {<<AssistantMessage(<<ImagePart>>), UserMessage,
                  AssistantMessage(<<TextPart(AnalysisText)>>), UserMessage>>,
                <<AssistantMessage(<<ImagePart, TextPart(AnalysisText), OtherPart>>),
                  UserMessage>>}
          ELSE {})

\* v1: one entry of content_parts
PartTextV1(part) ==
    IF part.kind = "text" THEN part.value
    ELSE IF part.kind = "image_file" THEN << <<"[Image generated]">> >>
    ELSE << <<"[Content of unsupported type]">> >>

\* v1: "\n".join(content_parts)
RECURSIVE JoinParts(_)
JoinParts(parts) ==
    IF parts = <<>> THEN <<>>
    ELSE PartTextV1(Head(parts)) \o JoinParts(Tail(parts))

\* v2: the first text part, or the "No text content found" default
RECURSIVE FirstText(_)
FirstText(parts) ==
    IF parts = <<>> THEN <<>>
    ELSE IF Head(parts).kind = "text" THEN Head(parts).value
    ELSE FirstText(Tail(parts))

ContentV2(parts) ==
    IF FirstText(parts) = <<>> THEN << <<"No text content found">> >>
    ELSE FirstText(parts)

\* the loop over messages.data: the first assistant message decides
RECURSIVE ExtractResult(_, _, _)
ExtractResult(messages, thread_id, run_id) ==
    IF messages = <<>> THEN [error |-> "No assistant response found"]
    ELSE IF Head(messages).role = "assistant"
    THEN [content |-> IF version = 1 THEN JoinParts(Head(messages).content)
                      ELSE ContentV2(Head(messages).content),
          thread_id |-> thread_id,
          run_id |-> run_id]
    ELSE ExtractResult(Tail(messages), thread_id, run_id)

ActorFetch ==
    /\ run.pc = "fetch"
    /\ \/ /\ faults < MaxFaults
          /\ faults' = faults + 1
          /\ run' = Raise(run, APIError)
       \/ /\ \E messages \in MessageLists(run.caller) :
               run' = [run EXCEPT !.pc = "done",
                         !.result = ExtractResult(messages, run.thread_id, run.run_id)]
          /\ UNCHANGED faults
    /\ UNCHANGED <<steps, version, agents, backend, context, call, ops, trace, written,
                   created, lastCleanup>>
    /\ UNCHANGED auxVars

MappingIds(agent) == [i \in 1..Len(agent.file_mapping) |-> agent.file_mapping[i].id]

\* cleanup(): "for file_id in self.file_mapping: try: delete except: print",
\* then file_mapping.clear().  fail: the ids whose delete raises.
RECURSIVE DeleteFiles(_, _, _, _)
DeleteFiles(ids, fail, attempted, logged) ==
    IF ids = <<>> THEN [attempted |-> attempted, logged |-> logged]
    ELSE DeleteFiles(Tail(ids), fail, Append(attempted, Head(ids)),
                     IF Head(ids) \in fail THEN Append(logged, Head(ids)) ELSE logged)

\* the same loop without the try/except: the first failing delete escapes
\* and file_mapping is not cleared
RECURSIVE DeleteFilesUnguarded(_, _, _)
DeleteFilesUnguarded(ids, fail, attempted) ==
    IF ids = <<>> THEN [attempted |-> attempted, raised |-> FALSE]
    ELSE IF Head(ids) \in fail
    THEN [attempted |-> Append(attempted, Head(ids)), raised |-> TRUE]
    ELSE DeleteFilesUnguarded(Tail(ids), fail, Append(attempted, Head(ids)))

ActorCleanupUnguarded(agent, fail) ==
    LET d == DeleteFilesUnguarded(MappingIds(agent), fail, <<>>)
    IN  [agent |-> IF d.raised THEN agent ELSE [agent EXCEPT !.file_mapping = <<>>],
         attempted |-> d.attempted, logged |-> <<>>, raised |-> d.raised]

\* a cleanup that also deletes the assistant and forgets its id
ActorCleanupDeletesAssistant(agent, fail) ==
    LET d == DeleteFiles(MappingIds(agent), fail, <<>>, <<>>)
    IN  [agent |-> [assistant_id |-> None, file_mapping |-> <<>>],
         attempted |-> d.attempted, logged |-> d.logged, raised |-> FALSE]

\* a cleanup that keeps in the mapping the files it could not delete
ActorCleanupKeepsFailed(agent, fail) ==
    LET d == DeleteFiles(MappingIds(agent), fail, <<>>, <<>>)
    IN  [agent |-> [agent EXCEPT !.file_mapping =
                       SelectSeq(@, LAMBDA f : f.id \in Range(d.logged))],
         attempted |-> d.attempted, logged |-> d.logged, raised |-> FALSE]

ActorCleanup(agent, fail) ==
    LET d == DeleteFiles(MappingIds(agent), fail, <<>>, <<>>)
    IN  [agent |-> [agent EXCEPT !.file_mapping = <<>>],
         attempted |-> d.attempted, logged |-> d.logged, raised |-> FALSE]

\* --------------------------------------------- direct use of one agent
RunAtRest == run.pc \in {"none", "done", "raised"}

\* agent.run_analysis(query, thread_id=..., max_retries=...) on the
\* stand-alone agent (v2 has no max_retries parameter)
DirectRunAnalysis ==
    /\ RunAtRest
    /\ call.pc = "idle"
    /\ ops < MaxOps
    /\ \E tid \in {None} \cup {ThreadId(Solo, n) : n \in 1..backend.threads},
          mr \in IF version = 1 THEN (0..MaxRetriesArg) \cup {DefaultMaxRetries}
                 ELSE {DefaultMaxRetries} :
         run' = StartRun("direct", Solo, <<>>, tid, mr)
    /\ ops' = ops + 1
    /\ lastCleanup' = NoCleanup
    /\ UNCHANGED <<steps, faults, version, agents, backend, context, call, trace, written,
                   created>>
    /\ UNCHANGED auxVars

\* agent.initialize() called by the user of the stand-alone agent; an
\* exception of the backend goes to that caller
DirectInitialize ==
    /\ RunAtRest
    /\ call.pc = "idle"
    /\ ops < MaxOps
    /\ \E k \in 0..Len(Files(Solo)), createOk \in BOOLEAN :
         LET r == Initialize(Solo, agents[Solo], Files(Solo), backend.files[Solo],
                             backend.assistants[Solo], k, createOk)
         IN  /\ r.raised => faults < MaxFaults
             /\ agents' = [agents EXCEPT ![Solo] = r.agent]
             /\ backend' = [backend EXCEPT !.files[Solo] = r.uploaded,
                                           !.assistants[Solo] = r.made]
             /\ faults' = IF r.raised THEN faults + 1 ELSE faults
    /\ ops' = ops + 1
    /\ run' = IdleRun
    /\ lastCleanup' = NoCleanup
    /\ UNCHANGED <<steps, version, context, call, trace, written, created>>
    /\ UNCHANGED auxVars

\* agent.cleanup() on the stand-alone agent
DirectCleanup ==
    /\ RunAtRest
    /\ call.pc = "idle"
    /\ \E fail \in SUBSET Range(MappingIds(agents[Solo])) :
         LET c == ActorCleanup(agents[Solo], fail)
         IN  /\ agents' = [agents EXCEPT ![Solo] = c.agent]
             /\ lastCleanup' = [kind |-> "actor", agent |-> Solo,
                                before |-> MappingIds(agents[Solo]),
                                attempted |-> c.attempted, logged |-> c.logged,
                                raised |-> c.raised,
                                after |-> c.agent.file_mapping]
    /\ run' = IdleRun
    /\ UNCHANGED <<ops, steps, faults, version, backend, context, call, trace, written, created>>
    /\ UNCHANGED auxVars

\* ------------------------------------------------ EnhancedOrchestrator
\* str.strip() on a line: drops the blanks at both ends
RECURSIVE LStrip(_)
LStrip(line) ==
    IF line # <<>> /\ Head(line) = " " THEN LStrip(Tail(line)) ELSE line

RECURSIVE RStrip(_)
RStrip(line) ==
    IF line # <<>> /\ line[Len(line)] = " "
    THEN RStrip(SubSeq(line, 1, Len(line) - 1)) ELSE line

Strip(line) == RStrip(LStrip(line))

\* index of the first token equal to sep, 0 when there is none
RECURSIVE IndexOf(_, _, _)
IndexOf(line, sep, i) ==
    IF i > Len(line) THEN 0
    ELSE IF line[i] = sep THEN i
    ELSE IndexOf(line, sep, i + 1)

\* line.split(sep, 1)[0] and [-1]
BeforeFirst(line, sep) ==
    LET i == IndexOf(line, sep, 1)
    IN  IF i = 0 THEN line ELSE SubSeq(line, 1, i - 1)

AfterFirst(line, sep) ==
    LET i == IndexOf(line, sep, 1)
    IN  IF i = 0 THEN line ELSE SubSeq(line, i + 1, Len(line))

\* _escape_backslashes (v1): every backslash is doubled
RECURSIVE EscapeBackslashes(_)
EscapeBackslashes(line) ==
    IF line = <<>> THEN <<>>
    ELSE (IF Head(line) = "\\" THEN <<"\\", "\\">> ELSE <<Head(line)>>)
         \o EscapeBackslashes(Tail(line))

\* the actor name a plan line is taken to give
LineActor(line) == Strip(AfterFirst(Strip(BeforeFirst(line, ":")), "."))

LineTask(line) ==
    IF version = 1 THEN EscapeBackslashes(Strip(AfterFirst(line, ":")))
    ELSE Strip(AfterFirst(line, ":"))

\* "if actor in self.actors": the name is one token, a registered key
NamesActor(tokens) == Len(tokens) = 1 /\ tokens[1] \in ActorNames

\* the parsing loop of _plan_execution
RECURSIVE ParsePlan(_)
ParsePlan(lines) ==
    IF lines = <<>> THEN <<>>
    ELSE LET line == Head(lines)
             rest == ParsePlan(Tail(lines))
         IN  IF IndexOf(line, ":", 1) # 0 /\ Strip(line) # <<>>
                /\ NamesActor(LineActor(line))
             THEN <<[actor |-> LineActor(line)[1], task |-> LineTask(line)]>> \o rest
             ELSE rest

\* OrchestratorContext.get_actor_history
GetActorHistory(ctx, a) ==
    IF ctx.actor_results[a] = <<>> THEN <<"No previous context.">>
    ELSE [i \in 1..Len(ctx.actor_results[a]) |->
            <<"Previous analysis",
              GetOr(ctx.actor_results[a][i], "content", << <<"No content">> >>)>>]

\* _escape_backslashes on a text of several lines
EscapeText(text) == [i \in 1..Len(text) |-> EscapeBackslashes(text[i])]

\* _escape_backslashes(get_actor_history(actor)) of v1: the fixed words hold
\* no backslash, the contents are escaped
EscapedHistory(ctx, a) ==
    IF ctx.actor_results[a] = <<>> THEN GetActorHistory(ctx, a)
    ELSE [i \in 1..Len(ctx.actor_results[a]) |->
            <<GetActorHistory(ctx, a)[i][1], EscapeText(GetActorHistory(ctx, a)[i][2])>>]

\* a prompt whose section of the other actors also shows the actor's own
\* latest result
CreateActorPromptWithSelf(ctx, a, task) ==
    [task |-> IF version = 1 THEN EscapeBackslashes(task) ELSE task,
     history |-> IF version = 1 THEN EscapedHistory(ctx, a) ELSE GetActorHistory(ctx, a),
     others |-> IF version = 1 THEN {}
                ELSE {<<o, GetOr(ctx.actor_results[o][Len(ctx.actor_results[o])], "content", <<>>)>> :
                        o \in {x \in ActorNames : ctx.actor_results[x] # <<>>}}]

\* _create_actor_prompt: the task, the actor's own history and (v2) the
\* latest result of every other actor that has one; v1 escapes the
\* backslashes of the history and of the task
CreateActorPrompt(ctx, a, task) ==
    [task |-> IF version = 1 THEN EscapeBackslashes(task) ELSE task,
     history |-> IF version = 1 THEN EscapedHistory(ctx, a) ELSE GetActorHistory(ctx, a),
     others |-> IF version = 1 THEN {}
                ELSE {<<o, GetOr(ctx.actor_results[o][Len(ctx.actor_results[o])], "content", <<>>)>> :
                        o \in {x \in ActorNames \ {a} : ctx.actor_results[x] # <<>>}}]

\* the planning prompt of _plan_execution: what it shows of the context
PlanningQuery(ctx) ==
    [previous |-> [a \in ActorNames |-> ctx.actor_results[a] # <<>>],
     latest |-> IF version = 1 THEN {}
                ELSE {<<a, GetOr(ctx.actor_results[a][Len(ctx.actor_results[a])], "content", <<>>)>> :
                        a \in {x \in ActorNames : ctx.actor_results[x] # <<>>}},
     history |-> IF version = 1 THEN <<>> ELSE ctx.history]

\* a results dict that keeps the first content stored under a key
DictKeepFirst(d, k, v) ==
    IF \E i \in 1..Len(d) : d[i].actor = k THEN d
    ELSE Append(d, [actor |-> k, content |-> v])

\* results[actor_name] = content on an insertion-ordered dict
RECURSIVE DictSet(_, _, _)
DictSet(d, k, v) ==
    IF d = <<>> THEN <<[actor |-> k, content |-> v]>>
    ELSE IF Head(d).actor = k THEN <<[actor |-> k, content |-> v]>> \o Tail(d)
    ELSE <<Head(d)>> \o DictSet(Tail(d), k, v)

\* the synthesis prompt of run_analysis (v2)
SynthesisPrompt(ctx, results) ==
    [results |-> results,
     available |-> [a \in ActorNames |-> Len(ctx.actor_results[a])]]

\* run_analysis: "if not maintain_context: self.context = OrchestratorContext()"
KeepAllContext(ctx, maintain_context) == ctx

ContextForCall(ctx, maintain_context) ==
    IF ~maintain_context THEN OrchestratorContext ELSE ctx

\* a context that keeps only the latest result of an actor
ExecuteActorRecordLatestOnly(ctx, a, task, thread_id, result) ==
    [threads |-> IF thread_id = None /\ Get(result, "thread_id") # None
                 THEN [ctx.threads EXCEPT ![a] = result.thread_id]
                 ELSE ctx.threads,
     actor_results |-> [ctx.actor_results EXCEPT ![a] = <<result>>],
     history |-> IF version = 2 THEN Append(ctx.history, <<a, task>>)
                 ELSE ctx.history]

\* _execute_actor after agent.run_analysis returned: store the thread id
\* if new, add the result, and (v2) add to the history
ExecuteActorRecord(ctx, a, task, thread_id, result) ==
    [threads |-> IF thread_id = None /\ Get(result, "thread_id") # None
                 THEN [ctx.threads EXCEPT ![a] = result.thread_id]
                 ELSE ctx.threads,
     actor_results |-> [ctx.actor_results EXCEPT ![a] = Append(@, result)],
     history |-> IF version = 2 THEN Append(ctx.history, <<a, task>>)
                 ELSE ctx.history]

Event(ev) == [ev |-> ev, k |-> 0, actor |-> ""]
TurnEvent(ev, k, a) == [ev |-> ev, k |-> k, actor |-> a]

CallAtRest == call.pc \in {"idle", "returned", "raised"}

\* an exception leaving run_analysis (v1: no handler; v2: logged, re-raised)
AbortCall(c, e) == [c EXCEPT !.pc = "raised", !.exc = e, !.response = NoResult]

\* a step's exception swallowed: the loop goes on with the next step
SkipFailedStep(c, e) == [c EXCEPT !.pc = "executing", !.i = @ + 1]

\* an exception raised while step c.i is executed
OnStepException(c, e) == AbortCall(c, e)

\* a handler that takes back what the call had written so far
ContextRolledBack(ctx, w) ==
    [threads |-> [a \in ActorNames |->
                    IF w.threads[a] # None THEN None ELSE ctx.threads[a]],
     actor_results |-> [a \in ActorNames |->
                    SubSeq(ctx.actor_results[a], 1,
                           Len(ctx.actor_results[a]) - Len(w.actor_results[a]))],
     history |-> SubSeq(ctx.history, 1, Len(ctx.history) - Len(w.history))]

\* the context when an exception leaves run_analysis: nothing restores it
\* (v1 has no handler, v2 logs and re-raises); w is what the call wrote
ContextOnException(ctx, w) == ctx

\* ---- run_analysis(query, maintain_context): entry
RunAnalysis ==
    /\ CallAtRest
    /\ run.pc = "none"
    /\ ops < MaxOps
    /\ \E maintain_context \in BOOLEAN :
         LET ctx == ContextForCall(context, maintain_context)
         IN  /\ context' = ctx
             /\ created' = IF maintain_context THEN created
                           ELSE [a \in ActorNames |-> 0]
             /\ call' = [IdleCall EXCEPT
                   !.pc = "planning", !.maintain = maintain_context,
                   !.prompt = PlanningQuery(ctx),
                   !.dropped = IF maintain_context THEN {}
                               ELSE {a \in ActorNames : context.threads[a] # None},
                   !.after = IF lastCleanup.kind # "orchestrator" THEN "none"
                             ELSE IF lastCleanup.full THEN "full" ELSE "partial"]
             /\ run' = IF version = 2
                       THEN StartRun("plan", Planner, PlanningQuery(ctx), None,
                                     DefaultMaxRetries)
                       ELSE run
    /\ ops' = ops + 1
    /\ trace' = <<Event("plan_start")>>
    /\ written' = OrchestratorContext
    /\ lastCleanup' = NoCleanup
    /\ UNCHANGED <<steps, faults, version, agents, backend>>
    /\ UNCHANGED auxVars

\* ---- _plan_execution, v1: one chat completion, then the parsing loop
PlanV1 ==
    /\ version = 1
    /\ call.pc = "planning"
    /\ \/ /\ faults < MaxFaults
          /\ faults' = faults + 1
          /\ call' = AbortCall(call, APIError)
          /\ trace' = Append(trace, Event("raise"))
       \/ \E response \in PlanResponses :
            /\ call' = [call EXCEPT !.pc = "executing", !.plan = ParsePlan(response)]
            /\ trace' = Append(trace, Event("plan_end"))
            /\ UNCHANGED faults
    /\ UNCHANGED <<steps, version, agents, backend, context, run, ops, written, created,
                   lastCleanup>>
    /\ UNCHANGED auxVars

\* ---- _plan_execution, v2: the planner's run returned or raised
PlanV2 ==
    /\ version = 2
    /\ call.pc = "planning"
    /\ run.pc \in {"done", "raised"}
    /\ IF run.pc = "raised"
       THEN /\ call' = AbortCall(call, run.exc)
            /\ trace' = Append(trace, Event("raise"))
       ELSE IF "content" \notin DOMAIN run.result
       THEN /\ call' = AbortCall(call, KeyError)
            /\ trace' = Append(trace, Event("raise"))
       ELSE /\ call' = [call EXCEPT !.pc = "executing",
                                    !.plan = ParsePlan(run.result.content)]
            /\ trace' = Append(trace, Event("plan_end"))
    /\ run' = IdleRun
    /\ UNCHANGED <<steps, faults, version, agents, backend, context, ops, written, created,
                   lastCleanup>>
    /\ UNCHANGED auxVars

\* the loop "for actor_name, task in plan" has a step left
MoreStepsOffByOne(c) == c.i < Len(c.plan)

MoreSteps(c) == c.i <= Len(c.plan)

\* ---- _execute_actor up to the call of agent.run_analysis
ExecuteActor ==
    /\ call.pc = "executing"
    /\ MoreSteps(call)
    /\ steps < MaxSteps
    /\ steps' = steps + 1
    /\ LET step == call.plan[call.i]
       IN  /\ run' = StartRun("step", step.actor,
                              CreateActorPrompt(context, step.actor, step.task),
                              context.threads[step.actor], DefaultMaxRetries)
           /\ trace' = Append(trace, TurnEvent("turn_start", call.i, step.actor))
    /\ call' = [call EXCEPT !.pc = "in_step"]
    /\ UNCHANGED <<faults, version, agents, backend, context, ops, written, created,
                   lastCleanup>>
    /\ UNCHANGED auxVars

\* ---- the rest of _execute_actor and of the loop body of run_analysis
ExecuteActorReturn ==
    /\ call.pc = "in_step"
    /\ run.pc \in {"done", "raised"}
    /\ LET step == call.plan[call.i]
       IN  IF run.pc = "raised"
           THEN /\ call' = OnStepException(call, run.exc)
                /\ trace' = Append(trace, Event("raise"))
                /\ context' = ContextOnException(context, written)
                /\ UNCHANGED written
           ELSE /\ context' = ExecuteActorRecord(context, step.actor, step.task,
                                                 run.tidArg, run.result)
                /\ written' = ExecuteActorRecord(written, step.actor, step.task,
                                                 run.tidArg, run.result)
                /\ IF "content" \notin DOMAIN run.result
                   THEN /\ call' = OnStepException(call, KeyError)
                        /\ trace' = Append(trace, Event("raise"))
                   ELSE /\ call' = [call EXCEPT
                               !.pc = "executing", !.i = @ + 1,
                               !.results = DictSet(@, step.actor, run.result.content)]
                        /\ trace' = Append(trace, TurnEvent("turn_end", call.i, step.actor))
    /\ run' = IdleRun
    /\ UNCHANGED <<steps, faults, version, agents, backend, ops, created, lastCleanup>>
    /\ UNCHANGED auxVars

\* the response dict of run_analysis
Response(c, answer) ==
    [answer |-> answer,
     steps_executed |-> Len(c.plan),
     actors_used |-> [i \in 1..Len(c.plan) |-> c.plan[i].actor],
     results |-> c.results]

\* ---- v1: the answer is the concatenation of the results
ReturnV1 ==
    /\ version = 1
    /\ call.pc = "executing"
    /\ ~MoreSteps(call)
    /\ call' = [call EXCEPT !.pc = "returned",
                  !.response = Response(call,
                      [i \in 1..Len(call.results) |->
                         <<"From", call.results[i].actor, call.results[i].content>>])]
    /\ trace' = Append(trace, Event("return"))
    /\ UNCHANGED <<steps, faults, version, agents, backend, context, run, ops, written, created,
                   lastCleanup>>
    /\ UNCHANGED auxVars

\* ---- v2: the planner is asked for the synthesis
Synthesize ==
    /\ version = 2
    /\ call.pc = "executing"
    /\ ~MoreSteps(call)
    /\ run' = StartRun("synthesis", Planner, SynthesisPrompt(context, call.results),
                       None, DefaultMaxRetries)
    /\ call' = [call EXCEPT !.pc = "synthesizing"]
    /\ trace' = Append(trace, Event("synth_start"))
    /\ UNCHANGED <<steps, faults, version, agents, backend, context, ops, written, created,
                   lastCleanup>>
    /\ UNCHANGED auxVars

SynthesizeReturn ==
    /\ call.pc = "synthesizing"
    /\ run.pc \in {"done", "raised"}
    /\ IF run.pc = "raised"
       THEN /\ call' = AbortCall(call, run.exc)
            /\ trace' = Append(trace, Event("raise"))
       ELSE IF "content" \notin DOMAIN run.result
       THEN /\ call' = AbortCall(call, KeyError)
            /\ trace' = Append(trace, Event("raise"))
       ELSE /\ call' = [call EXCEPT !.pc = "returned",
                           !.response = Response(call, run.result.content)]
            /\ trace' = trace \o <<Event("synth_end"), Event("return")>>
    /\ run' = IdleRun
    /\ UNCHANGED <<steps, faults, version, agents, backend, context, ops, written, created,
                   lastCleanup>>
    /\ UNCHANGED auxVars

\* ---- EnhancedOrchestrator.cleanup(full)
\* the agents cleanup() is called on, in order: self.actors.values(), then
\* (v2) self.planner
CleanupTargets ==
    RegisteredActors \o (IF version = 2 THEN <<Planner>> ELSE <<>>)

\* a sweep that gives up after the first agent that logged a failed delete
RECURSIVE CleanupAgentsStopOnFailure(_, _, _, _)
CleanupAgentsStopOnFailure(targets, ags, fail, acc) ==
    IF targets = <<>> THEN [acc EXCEPT !.agents = ags]
    ELSE LET a == Head(targets)
             c == ActorCleanup(ags[a], fail)
             acc1 == [acc EXCEPT !.called = Append(@, a),
                                 !.attempted = @ \o c.attempted,
                                 !.logged = @ \o c.logged]
             ags1 == [ags EXCEPT ![a] = c.agent]
         IN  IF c.raised \/ c.logged # <<>>
             THEN [acc1 EXCEPT !.agents = ags1, !.raised = TRUE]
             ELSE CleanupAgentsStopOnFailure(Tail(targets), ags1, fail, acc1)

CleanupSweepStopOnFailure(targets, ags, fail) ==
    CleanupAgentsStopOnFailure(targets, ags, fail,
                  [agents |-> ags, called |-> <<>>, attempted |-> <<>>,
                   logged |-> <<>>, raised |-> FALSE])

\* "for agent, _ in self.actors.values(): agent.cleanup()" with nothing
\* around the single call: an exception of one cleanup() ends the sweep
RECURSIVE CleanupAgents(_, _, _, _)
CleanupAgents(targets, ags, fail, acc) ==
    IF targets = <<>> THEN [acc EXCEPT !.agents = ags]
    ELSE LET a == Head(targets)
             c == ActorCleanup(ags[a], fail)
             acc1 == [acc EXCEPT !.called = Append(@, a),
                                 !.attempted = @ \o c.attempted,
                                 !.logged = @ \o c.logged]
             ags1 == [ags EXCEPT ![a] = c.agent]
         IN  IF c.raised THEN [acc1 EXCEPT !.agents = ags1, !.raised = TRUE]
             ELSE CleanupAgents(Tail(targets), ags1, fail, acc1)

CleanupSweep(targets, ags, fail) ==
    CleanupAgents(targets, ags, fail,
                  [agents |-> ags, called |-> <<>>, attempted |-> <<>>,
                   logged |-> <<>>, raised |-> FALSE])

\* "if full: self.context = OrchestratorContext()"
ContextAlwaysCleared(ctx, full) == OrchestratorContext

\* a partial cleanup that keeps the thread ids and drops the records
ContextKeepsThreadsOnly(ctx, full) ==
    IF full THEN OrchestratorContext
    ELSE [ctx EXCEPT !.actor_results = OrchestratorContext.actor_results]

ContextAfterCleanup(ctx, full) ==
    IF full THEN OrchestratorContext ELSE ctx

AllMappedIds ==
    UNION {Range(MappingIds(agents[a])) : a \in Range(CleanupTargets)}

Cleanup ==
    /\ CallAtRest
    /\ run.pc = "none"
    /\ \E full \in BOOLEAN, fail \in SUBSET AllMappedIds :
         LET s == CleanupSweep(CleanupTargets, agents, fail)
             ctx == IF s.raised THEN context ELSE ContextAfterCleanup(context, full)
         IN  /\ agents' = s.agents
             /\ context' = ctx
             /\ created' = IF full /\ ~s.raised THEN [a \in ActorNames |-> 0]
                           ELSE created
             /\ lastCleanup' = [kind |-> "orchestrator", full |-> full,
                                previous |-> IF lastCleanup.kind # "orchestrator" THEN "none"
                                             ELSE IF lastCleanup.full THEN "full"
                                             ELSE "partial",
                                before |-> [a \in AgentNames |-> MappingIds(agents[a])],
                                called |-> s.called,
                                attempted |-> s.attempted, logged |-> s.logged,
                                raised |-> s.raised]
    /\ call' = IdleCall
    /\ trace' = <<>>
    /\ written' = OrchestratorContext
    /\ UNCHANGED <<ops, steps, faults, version, backend, run>>
    /\ UNCHANGED auxVars

Next ==
    \/ RunAnalysis
    \/ PlanV1
    \/ PlanV2
    \/ ExecuteActor
    \/ ExecuteActorReturn
    \/ ReturnV1
    \/ Synthesize
    \/ SynthesizeReturn
    \/ Cleanup
    \/ ActorInitialize
    \/ ActorSubmit
    \/ ActorPoll
    \/ ActorFetch

Spec == Init /\ [][Next]_vars

NextActor ==
    \/ DirectInitialize
    \/ DirectRunAnalysis
    \/ DirectCleanup
    \/ ActorInitialize
    \/ ActorSubmit
    \/ ActorPoll
    \/ ActorFetch

SpecActor == Init /\ [][NextActor]_vars

\* ------------------------------------------------- the polling loops
\* experian_langgraph.create_thread_and_run, one iteration of "while True:":
\* only completed and failed leave the loop
PollStepLanggraph(r, answer) ==
    IF answer = "api_error" THEN Raise(r, APIError)
    ELSE IF answer = "completed" THEN [r EXCEPT !.pc = "fetch"]
    ELSE IF answer = "failed" THEN Raise(r, RunFailedError(answer))
    ELSE r

\* how the status of a run moves at the backend; a terminal status stays
StatusMoves(status) ==
    CASE status = "queued" -> {"in_progress", "cancelled"}
      [] status = "in_progress" -> {"requires_action", "completed", "failed",
                                    "expired", "cancelled"}
      [] status = "requires_action" -> {"in_progress", "expired"}
      [] OTHER -> {}

\* the polling loops with the backend as a process of its own: the state
\* right after runs.create returned
PollingStart ==
    /\ run.pc = "none"
    /\ call.pc = "idle"
    /\ ops < MaxOps
    /\ \E loop \in {"agent", "langgraph"} :
         \E mr \in IF version = 1 /\ loop = "agent"
                    THEN (1..MaxRetriesArg) \cup {DefaultMaxRetries}
                    ELSE {DefaultMaxRetries} :
            /\ run' = [IdleRun EXCEPT !.pc = "poll", !.caller = "direct",
                                     !.thread_id = ThreadId(Solo, 1),
                                     !.run_id = RunId(ThreadId(Solo, 1)),
                                     !.max_retries = mr]
            /\ remote' = [IdleRemote EXCEPT !.loop = loop]
    /\ ops' = ops + 1
    /\ UNCHANGED <<version, agents, backend, context, call, steps, faults, trace,
                   written, created, lastCleanup, planner, router>>

\* the backend, between two status checks
BackendMoves ==
    /\ run.pc = "poll"
    /\ \/ /\ \E status \in StatusMoves(remote.status) :
                remote' = [remote EXCEPT !.status = status]
          /\ UNCHANGED faults
       \/ /\ ~remote.error
          /\ faults < MaxFaults
          /\ faults' = faults + 1
          /\ remote' = [remote EXCEPT !.error = TRUE]
    /\ UNCHANGED <<version, agents, backend, context, call, run, ops, steps, trace,
                   written, created, lastCleanup, planner, router>>

\* one status check: runs.retrieve and the rest of the loop body
PollRetrieve ==
    /\ run.pc = "poll"
    /\ run.retries < MaxPolls
    /\ LET answer == IF remote.error THEN "api_error" ELSE remote.status
           r0 == [run EXCEPT !.seen = IF answer \in FailureStatuses /\ @ = "none"
                                      THEN answer ELSE @]
       IN  run' = IF remote.loop = "langgraph" THEN PollStepLanggraph(r0, answer)
                  ELSE PollStep(r0, answer)
    /\ remote' = [remote EXCEPT !.error = FALSE, !.tick = 1 - @]
    /\ UNCHANGED <<version, agents, backend, context, call, ops, steps, faults, trace,
                   written, created, lastCleanup, planner, router>>

\* the call is over: the loop was left by break or by an exception
PollingEnd ==
    /\ run.pc \in {"fetch", "raised"}
    /\ run' = IdleRun
    /\ remote' = IdleRemote
    /\ UNCHANGED <<version, agents, backend, context, call, ops, steps, faults, trace,
                   written, created, lastCleanup, planner, router>>

NextPolling ==
    \/ PollingStart
    \/ BackendMoves
    \/ PollRetrieve
    \/ PollingEnd

\* the caller's thread keeps running: a status check that can be made is made
SpecPolling == Init /\ [][NextPolling]_vars /\ WF_vars(PollRetrieve) /\ WF_vars(PollingEnd)

\* ------------------------------------------------------- QueryPlanner
\* register_actor calls made on one planner
MaxRegs == 3

\* members of the enumerations DataType and AnalysisType, by name
DataTypes == {"CUSTOMER", "ORGANIZATION"}
AnalysisTypes == {"GEOGRAPHIC", "STATISTICAL"}

\* str.lower() on a member name
LowerName(name) ==
    CASE name = "CUSTOMER" -> "customer"
      [] name = "ORGANIZATION" -> "organization"
      [] name = "GEOGRAPHIC" -> "geographic"
      [] name = "STATISTICAL" -> "statistical"
      [] OTHER -> name

ActorCapabilities(data, analyses) ==
    [supported_data_types |-> data, supported_analyses |-> analyses]

\* the register_actor(name, capabilities) calls a deployment makes
Registrations ==
    { [name |-> "customer", capabilities |-> ActorCapabilities({"CUSTOMER"}, {})],
      [name |-> "organization",
       capabilities |-> ActorCapabilities({"ORGANIZATION"}, {"GEOGRAPHIC"})],
      [name |-> "customer", capabilities |-> ActorCapabilities(DataTypes, AnalysisTypes)],
      [name |-> "organization",
       capabilities |-> ActorCapabilities({"CUSTOMER"}, {"STATISTICAL"})] }

\* a registration that removes the name first, so that it comes last
SetCapabilitiesMovingToEnd(d, name, capabilities) ==
    SelectSeq(d, LAMBDA item : item.name # name)
    \o <<[name |-> name, capabilities |-> capabilities]>>

\* self.actor_capabilities[name] = capabilities on a dict kept as the
\* sequence of its items: a name already present keeps its position
RECURSIVE SetCapabilities(_, _, _)
SetCapabilities(d, name, capabilities) ==
    IF d = <<>> THEN <<[name |-> name, capabilities |-> capabilities]>>
    ELSE IF Head(d).name = name
    THEN <<[name |-> name, capabilities |-> capabilities]>> \o Tail(d)
    ELSE <<Head(d)>> \o SetCapabilities(Tail(d), name, capabilities)

\* the dict after the register_actor calls "regs", made in order
RECURSIVE RegisterAll(_, _)
RegisterAll(d, regs) ==
    IF regs = <<>> THEN d
    ELSE RegisterAll(SetCapabilities(d, Head(regs).name, Head(regs).capabilities),
                     Tail(regs))

\* the order in which this interpreter process iterates a set of DataType
\* members (it follows the members' hashes, which a process draws at start)
HashOrders ==
    {o \in [1..Cardinality(DataTypes) -> DataTypes] :
        \A i, j \in 1..Cardinality(DataTypes) : o[i] = o[j] => i = j}

\* list(s) for a set s of DataType members
ListOfSet(s, order) == SelectSeq(order, LAMBDA x : x \in s)

\* ---- the language model's answer, as text
\* JSON values: a field of the object is a list of names, null, or absent
JsonList(items) == [is |-> "list", items |-> items]
JsonMissing == [is |-> "missing", items |-> <<>>]
JsonNull == [is |-> "null", items |-> <<>>]
JsonObject(data, analyses) == [kind |-> "dict", data |-> data, analyses |-> analyses]
\* a JSON array at top level
JsonArray == [kind |-> "list", data |-> JsonMissing, analyses |-> JsonMissing]

\* values of {"required_data_types": ..., "required_analyses": ...}
Payloads ==
    { JsonObject(JsonList(<<"CUSTOMER", "ORGANIZATION">>), JsonList(<<"GEOGRAPHIC">>)),
      JsonObject(JsonList(<<"CUSTOMER">>), JsonList(<<"GEOGRAPHIC">>)),
      JsonObject(JsonList(<<"ORGANIZATION", "CUSTOMER">>),
                 JsonList(<<"GEOGRAPHIC", "STATISTICAL">>)),
      JsonObject(JsonList(<<>>), JsonList(<<"STATISTICAL">>)),
      JsonObject(JsonList(<<"CUSTOMER">>), JsonMissing),
      JsonObject(JsonList(<<"PRODUCT">>), JsonList(<<"GEOGRAPHIC">>)),
      JsonObject(JsonList(<<"CUSTOMER">>), JsonList(<<"TREND">>)),
      JsonObject(JsonNull, JsonList(<<"GEOGRAPHIC">>)),
      JsonArray }

\* pieces of text: a fence of three backticks, the language tag, a line
\* break, some prose, a complete JSON text without backticks, a JSON object
\* text up to the inside of a string value of an extra key, and the end of
\* that string and object
Piece(t) == [t |-> t, v |-> JsonArray]
Fence == Piece("fence")
Tag == Piece("json")
NL == Piece("\n")
Prose == Piece("prose")
JsonText(v) == [t |-> "whole", v |-> v]
JsonOpen(v) == [t |-> "open", v |-> v]
JsonClose == Piece("close")
\* message.content is None
NoContent == <<Piece("None")>>

Fenced(payload) == <<Fence, Tag, NL>> \o payload \o <<NL, Fence>>

PlannerReplies ==
    UNION { { <<JsonText(v)>>,
              <<NL, JsonText(v), NL>>,
              Fenced(<<JsonText(v)>>),
              <<Fence, NL, JsonText(v), NL, Fence>>,
              <<Prose, NL>> \o Fenced(<<JsonText(v)>>) \o <<NL, Prose>>,
              <<Prose, JsonText(v)>>,
              <<Fence, Tag, NL, JsonText(v)>> } : v \in Payloads }
    \cup { <<JsonOpen(v), Fence, JsonClose>> : v \in {p \in Payloads : p.kind = "dict"} }
    \cup {<<>>, NoContent}

\* str.strip(): line breaks at both ends go
RECURSIVE StripLeft(_)
StripLeft(text) == IF text # <<>> /\ Head(text) = NL THEN StripLeft(Tail(text)) ELSE text
RECURSIVE StripRight(_)
StripRight(text) ==
    IF text # <<>> /\ text[Len(text)] = NL THEN StripRight(SubSeq(text, 1, Len(text) - 1))
    ELSE text
StripText(text) == StripRight(StripLeft(text))

SetMin(S) == CHOOSE n \in S : \A m \in S : n <= m

\* _clean_json_response: re.search of fence, optional tag, lazy group,
\* fence: the match starts at the first fence, passes the tag if it follows,
\* and ends at the next fence; without a match the response is kept; then strip()
CleanJsonResponse(response) ==
    LET fences == {i \in 1..Len(response) : response[i] = Fence}
    IN  IF fences = {} THEN StripText(response)
        ELSE LET first == SetMin(fences)
                 start == IF first < Len(response) /\ response[first + 1] = Tag
                          THEN first + 2 ELSE first + 1
                 closing == {j \in fences : j >= start}
             IN  IF closing = {} THEN StripText(response)
                 ELSE StripText(SubSeq(response, start, SetMin(closing) - 1))

\* json.loads: the text must be exactly one JSON text; inside a string
\* backticks and letters are allowed, a raw line break is not
JsonLoads(text) ==
    IF Len(text) = 1 /\ text[1].t = "whole" THEN [ok |-> TRUE, value |-> text[1].v]
    ELSE IF /\ Len(text) >= 2
            /\ text[1].t = "open"
            /\ text[Len(text)] = JsonClose
            /\ \A i \in 2..(Len(text) - 1) : text[i] \in {Fence, Tag, Prose}
    THEN [ok |-> TRUE, value |-> text[1].v]
    ELSE [ok |-> FALSE, value |-> JsonArray]

ValueError(msg) == [msg |-> <<"ValueError">> \o msg]
\* print("Parsed result:", result) in the handler, with result unbound
UnboundLocalError == [msg |-> <<"UnboundLocalError", "result">>]
\* the "except Exception" handler: ValueError(f"Invalid response format: {e}")
InvalidResponseFormat(e) == ValueError(<<"Invalid response format", e>>)
\* ValueError(f"No actor found for ...")
NoActorFound(kind, type) == ValueError(<<"No actor found for", kind, type>>)

IsNoActorFound(e) == Len(e.msg) = 4 /\ e.msg[2] = "No actor found for"

RaisedResult(e) == [kind |-> "raised", exc |-> e]

\* _analyze_query_requirements, from the model's answer on
AnalyzeQueryRequirements(response) ==
    IF response = NoContent THEN RaisedResult(UnboundLocalError)
    ELSE
    LET doc == JsonLoads(CleanJsonResponse(response))
        result == doc.value
    IN  IF ~doc.ok THEN RaisedResult(ValueError(<<"Failed to parse LLM response">>))
        ELSE IF result.kind # "dict"
        THEN RaisedResult(InvalidResponseFormat("Response is not a dictionary"))
        ELSE IF result.data.is = "missing" \/ result.analyses.is = "missing"
        THEN RaisedResult(InvalidResponseFormat("Response missing required keys"))
        ELSE IF result.data.is = "null"
        THEN RaisedResult(InvalidResponseFormat("TypeError"))
        ELSE IF ~(\A i \in 1..Len(result.data.items) : result.data.items[i] \in DataTypes)
        THEN RaisedResult(InvalidResponseFormat("Invalid data types in response"))
        ELSE IF result.analyses.is = "null"
        THEN RaisedResult(InvalidResponseFormat("TypeError"))
        ELSE IF ~(\A i \in 1..Len(result.analyses.items) :
                    result.analyses.items[i] \in AnalysisTypes)
        THEN RaisedResult(InvalidResponseFormat("Invalid analysis types in response"))
        ELSE [kind |-> "ok", data |-> result.data.items,
              analyses |-> result.analyses.items]

\* the last item of the dict that supports the type
FindLatestActorForData(caps, data_type) ==
    LET able == {i \in 1..Len(caps) :
                   data_type \in caps[i].capabilities.supported_data_types}
    IN  IF able = {} THEN [found |-> FALSE, name |-> ""]
        ELSE [found |-> TRUE, name |-> caps[SetMax(able)].name]

\* the first item of the dict, in its order, that supports the type
FindBestActorForData(caps, data_type) ==
    LET able == {i \in 1..Len(caps) :
                   data_type \in caps[i].capabilities.supported_data_types}
    IN  IF able = {} THEN [found |-> FALSE, name |-> ""]
        ELSE [found |-> TRUE, name |-> caps[SetMin(able)].name]

FindBestActorForAnalysis(caps, analysis_type) ==
    LET able == {i \in 1..Len(caps) :
                   analysis_type \in caps[i].capabilities.supported_analyses}
    IN  IF able = {} THEN [found |-> FALSE, name |-> ""]
        ELSE [found |-> TRUE, name |-> caps[SetMin(able)].name]

\* ExecutionStep.depends_on when the constructor is not given one
DefaultDependsOn == <<>>

\* ExecutionStep(...) of the first loop; depends_on keeps its default
DataStep(actor, data_type) ==
    [actor_name |-> actor,
     action |-> <<"retrieve", LowerName(data_type), "data">>,
     required_data |-> <<data_type>>,
     expected_output |-> <<data_type, "data summary">>,
     depends_on |-> DefaultDependsOn]

\* an analysis step that waits for nothing
NoDependencies(plan_steps, handled_data) == <<>>

\* [s.actor_name for s in steps if any(dt in s.required_data for dt in handled_data)]
Dependencies(plan_steps, handled_data) ==
    LET uses(i) == \E dt \in handled_data : dt \in Range(plan_steps[i].required_data)
        picked == SelectSeq([i \in 1..Len(plan_steps) |-> i], uses)
    IN  [k \in 1..Len(picked) |-> plan_steps[picked[k]].actor_name]

\* the dependencies computed after the step was appended: its own actor
\* is among them
AnalysisStepSelfDependent(actor, analysis, plan_steps, handled_data, order) ==
    [actor_name |-> actor,
     action |-> <<"perform", LowerName(analysis), "analysis">>,
     required_data |-> ListOfSet(handled_data, order),
     expected_output |-> <<analysis, "analysis results">>,
     depends_on |-> IF handled_data = {} THEN <<>>
                    ELSE Append(Dependencies(plan_steps, handled_data), actor)]

\* ExecutionStep(...) of the second loop, built before it is appended
AnalysisStep(actor, analysis, plan_steps, handled_data, order) ==
    [actor_name |-> actor,
     action |-> <<"perform", LowerName(analysis), "analysis">>,
     required_data |-> ListOfSet(handled_data, order),
     expected_output |-> <<analysis, "analysis results">>,
     depends_on |-> Dependencies(plan_steps, handled_data)]

\* a first loop that passes over a data type no actor supports
RECURSIVE DataStepsSkipping(_, _, _)
DataStepsSkipping(caps, required_data, plan_steps) ==
    IF required_data = <<>> THEN [raised |-> FALSE, steps |-> plan_steps]
    ELSE LET actor == FindBestActorForData(caps, Head(required_data))
         IN  DataStepsSkipping(caps, Tail(required_data),
                 IF actor.found
                 THEN Append(plan_steps, DataStep(actor.name, Head(required_data)))
                 ELSE plan_steps)

\* the first loop of _create_execution_steps
RECURSIVE DataSteps(_, _, _)
DataSteps(caps, required_data, plan_steps) ==
    IF required_data = <<>> THEN [raised |-> FALSE, steps |-> plan_steps]
    ELSE LET actor == FindBestActorForData(caps, Head(required_data))
         IN  IF ~actor.found
             THEN [raised |-> TRUE, exc |-> NoActorFound("data type", Head(required_data))]
             ELSE DataSteps(caps, Tail(required_data),
                            Append(plan_steps, DataStep(actor.name, Head(required_data))))

\* the second loop of _create_execution_steps
RECURSIVE AnalysisSteps(_, _, _, _, _)
AnalysisSteps(caps, required_analyses, plan_steps, handled_data, order) ==
    IF required_analyses = <<>> THEN [raised |-> FALSE, steps |-> plan_steps]
    ELSE LET actor == FindBestActorForAnalysis(caps, Head(required_analyses))
         IN  IF ~actor.found
             THEN [raised |-> TRUE,
                   exc |-> NoActorFound("analysis", Head(required_analyses))]
             ELSE AnalysisSteps(caps, Tail(required_analyses),
                      Append(plan_steps, AnalysisStep(actor.name, Head(required_analyses),
                                                 plan_steps, handled_data, order)),
                      handled_data, order)

\* the two loops in the other order: the analyses are scheduled first
CreateExecutionStepsAnalysesFirst(caps, required_data, required_analyses, order) ==
    LET made == AnalysisSteps(caps, required_analyses, <<>>, Range(required_data), order)
    IN  IF made.raised THEN made
        ELSE DataSteps(caps, required_data, made.steps)

CreateExecutionSteps(caps, required_data, required_analyses, order) ==
    LET data == DataSteps(caps, required_data, <<>>)
    IN  IF data.raised THEN data
        ELSE AnalysisSteps(caps, required_analyses, data.steps, Range(required_data),
                           order)

\* _create_synthesis_prompt: the query and the steps' expected outputs
CreateSynthesisPrompt(query, plan_steps) ==
    <<query, [i \in 1..Len(plan_steps) |-> plan_steps[i].expected_output]>>

PlannerQuery == "query"

\* create_execution_plan, from the model's answer on
CreateExecutionPlan(caps, response, order) ==
    LET required == AnalyzeQueryRequirements(response)
    IN  IF required.kind = "raised" THEN required
        ELSE LET made == CreateExecutionSteps(caps, required.data, required.analyses,
                                              order)
             IN  IF made.raised THEN RaisedResult(made.exc)
                 ELSE [kind |-> "plan",
                       query |-> PlannerQuery,
                       steps |-> made.steps,
                       final_synthesis_prompt |->
                           CreateSynthesisPrompt(PlannerQuery, made.steps),
                       required_actors |->
                           {made.steps[i].actor_name : i \in 1..Len(made.steps)}]

plannerFrame == <<version, agents, backend, context, call, run, ops, steps, faults,
                  trace, written, created, lastCleanup, remote, router>>

\* QueryPlanner(api_key) in a new interpreter process
PlannerStart ==
    /\ planner.pc = "idle"
    /\ \E order \in HashOrders :
         planner' = [planner EXCEPT !.pc = "ready", !.hash_order = order]
    /\ UNCHANGED plannerFrame

RegisterActor ==
    /\ planner.pc = "ready"
    /\ Len(planner.regs) < MaxRegs
    /\ \E reg \in Registrations :
         planner' = [planner EXCEPT
                        !.actor_capabilities =
                            SetCapabilities(@, reg.name, reg.capabilities),
                        !.regs = Append(@, reg)]
    /\ UNCHANGED plannerFrame

\* planner.create_execution_plan(query); the language model answers "response"
PlannerCreatePlan ==
    /\ planner.pc = "ready"
    /\ \E response \in PlannerReplies :
         planner' = [planner EXCEPT
                        !.pc = "planned",
                        !.response = response,
                        !.required = AnalyzeQueryRequirements(response),
                        !.result = CreateExecutionPlan(planner.actor_capabilities,
                                                       response, planner.hash_order)]
    /\ UNCHANGED plannerFrame

\* the program run a second time: a new process, the same register_actor
\* calls, and the same answer of the language model, as it was or inside a
\* fence with the json tag
PlannerRunAgain ==
    /\ planner.pc = "planned"
    /\ \E order \in HashOrders, fenced \in BOOLEAN :
         /\ fenced => planner.response # NoContent
         /\ LET response == IF fenced THEN Fenced(planner.response)
                            ELSE planner.response
                caps == RegisterAll(<<>>, planner.regs)
            IN  planner' = [planner EXCEPT
                    !.pc = "again",
                    !.again = [fenced |-> fenced,
                               hash_order |-> order,
                               required |-> AnalyzeQueryRequirements(response),
                               result |-> CreateExecutionPlan(caps, response, order)]]
    /\ UNCHANGED plannerFrame

NextPlanner ==
    \/ PlannerStart
    \/ RegisterActor
    \/ PlannerCreatePlan
    \/ PlannerRunAgain

SpecPlanner == Init /\ [][NextPlanner]_vars

\* ------------------------------------------- graph Orchestrator (router)
\* actor turns in one run of the graph
MaxTurns == 2

\* message contents are sequences of pieces of text; " " is one blank
RouterTexts ==
    { <<"data">>,
      <<"customer", "s">>,
      <<"ORGANIZATION">>,
      <<"company", " ", "data">>,
      <<"individual", "s">>,
      <<"customer", " ", "organization">>,
      <<"Analysis", " ", "Complete">>,
      <<"customer", " ", "analysis", " ", "complete", "d">>,
      <<"organization", " ", "task", " ", "finished">>,
      <<"analysis", " ", "in", "complete">>,
      <<"final", " ", "recommendation">>,
      <<"company", " ", "conclusion", " ", "reached">> }

\* str.lower()
LowerPiece(p) ==
    CASE p = "Analysis" -> "analysis"
      [] p = "Complete" -> "complete"
      [] p = "ORGANIZATION" -> "organization"
      [] OTHER -> p
LowerText(text) == [i \in 1..Len(text) |-> LowerPiece(text[i])]

\* "phrase in text" on strings: the phrase occurs at some position
Contains(text, phrase) ==
    \E i \in 0..(Len(text) - Len(phrase)) : SubSeq(text, i + 1, i + Len(phrase)) = phrase

CompletionPhrases ==
    { <<"analysis", " ", "complete">>, <<"task", " ", "finished">>,
      <<"final", " ", "recommendation">>, <<"conclusion", " ", "reached">> }

\* HumanMessage(content=query).name
NoName == "None"

HumanMessage(content, name) == [content |-> content, name |-> name]

\* a supervisor that looks at the routing keywords before the completion
\* phrases
GetNextActorKeywordsFirst(messages) ==
    LET last_message == LowerText(messages[Len(messages)].content)
        last_actor == messages[Len(messages)].name
    IN  IF /\ Contains(last_message, <<"organization">>)
              \/ Contains(last_message, <<"company">>)
           /\ last_actor # "organization_specialist"
        THEN "organization_specialist"
        ELSE IF /\ Contains(last_message, <<"customer">>)
                   \/ Contains(last_message, <<"individual">>)
                /\ last_actor # "customer_specialist"
        THEN "customer_specialist"
        ELSE IF \E phrase \in CompletionPhrases : Contains(last_message, phrase)
        THEN "FINISH"
        ELSE IF last_actor = "customer_specialist" THEN "organization_specialist"
        ELSE "customer_specialist"

\* a supervisor that looks at the customer keywords before the organization
\* keywords
GetNextActorCustomerFirst(messages) ==
    LET last_message == LowerText(messages[Len(messages)].content)
        last_actor == messages[Len(messages)].name
    IN  IF \E phrase \in CompletionPhrases : Contains(last_message, phrase)
        THEN "FINISH"
        ELSE IF /\ Contains(last_message, <<"customer">>)
                   \/ Contains(last_message, <<"individual">>)
                /\ last_actor # "customer_specialist"
        THEN "customer_specialist"
        ELSE IF /\ Contains(last_message, <<"organization">>)
                   \/ Contains(last_message, <<"company">>)
                /\ last_actor # "organization_specialist"
        THEN "organization_specialist"
        ELSE IF last_actor = "customer_specialist" THEN "organization_specialist"
        ELSE "customer_specialist"

\* a supervisor with a budget of actor turns: it finishes once the
\* transcript holds two replies
GetNextActorBudgeted(messages) ==
    LET last_message == LowerText(messages[Len(messages)].content)
        last_actor == messages[Len(messages)].name
    IN  IF \/ \E phrase \in CompletionPhrases : Contains(last_message, phrase)
           \/ Len(messages) > 2
        THEN "FINISH"
        ELSE IF /\ Contains(last_message, <<"organization">>)
                   \/ Contains(last_message, <<"company">>)
                /\ last_actor # "organization_specialist"
        THEN "organization_specialist"
        ELSE IF /\ Contains(last_message, <<"customer">>)
                   \/ Contains(last_message, <<"individual">>)
                /\ last_actor # "customer_specialist"
        THEN "customer_specialist"
        ELSE IF last_actor = "customer_specialist" THEN "organization_specialist"
        ELSE "customer_specialist"

\* a supervisor that routes on the keywords alone, whoever spoke last
GetNextActorByKeyword(messages) ==
    LET last_message == LowerText(messages[Len(messages)].content)
        last_actor == messages[Len(messages)].name
    IN  IF \E phrase \in CompletionPhrases : Contains(last_message, phrase)
        THEN "FINISH"
        ELSE IF \/ Contains(last_message, <<"organization">>)
                \/ Contains(last_message, <<"company">>)
        THEN "organization_specialist"
        ELSE IF \/ Contains(last_message, <<"customer">>)
                \/ Contains(last_message, <<"individual">>)
        THEN "customer_specialist"
        ELSE IF last_actor = "customer_specialist" THEN "organization_specialist"
        ELSE "customer_specialist"

\* get_next_actor of _supervisor_node
GetNextActor(messages) ==
    LET last_message == LowerText(messages[Len(messages)].content)
        last_actor == messages[Len(messages)].name
    IN  IF \E phrase \in CompletionPhrases : Contains(last_message, phrase)
        THEN "FINISH"
        ELSE IF /\ Contains(last_message, <<"organization">>)
                   \/ Contains(last_message, <<"company">>)
                /\ last_actor # "organization_specialist"
        THEN "organization_specialist"
        ELSE IF /\ Contains(last_message, <<"customer">>)
                   \/ Contains(last_message, <<"individual">>)
                /\ last_actor # "customer_specialist"
        THEN "customer_specialist"
        ELSE IF last_actor = "customer_specialist" THEN "organization_specialist"
        ELSE "customer_specialist"

routerFrame == <<context, call, run, steps, trace, written, created, lastCleanup,
                 remote, planner>>

\* Orchestrator.run(query): the initial state enters the graph at the
\* supervisor (the router is built on the v2 agent)
RouterRun ==
    /\ version = 2
    /\ router.pc \in {"idle", "done", "raised"}
    /\ call.pc = "idle" /\ run.pc = "none"
    /\ ops < MaxOps
    /\ \E query \in RouterTexts :
         router' = [IdleRouter EXCEPT
                       !.pc = "supervisor",
                       !.messages = <<HumanMessage(query, NoName)>>]
    /\ ops' = ops + 1
    /\ UNCHANGED <<version, agents, backend, faults>>
    /\ UNCHANGED routerFrame

\* the supervisor node: {"next": ...}
RouterSupervisor ==
    /\ router.pc = "supervisor"
    /\ router' = [router EXCEPT !.pc = "routed", !.next = GetNextActor(router.messages)]
    /\ UNCHANGED <<version, agents, backend, faults, ops>>
    /\ UNCHANGED routerFrame

\* a node that never passes the thread id of the state on
NodeCallFreshThread(state, name) ==
    [actor |-> name,
     query |-> state.messages[Len(state.messages)].content,
     thread_id |-> None]

\* node_func: what it passes to actor.run_analysis (the empty string of the
\* initial state and None are the same to "if not thread_id")
NodeCall(state, name) ==
    [actor |-> name,
     query |-> state.messages[Len(state.messages)].content,
     thread_id |-> state.shared_thread]

\* node_func: the state update it returns, merged into the state
\* (messages by operator.add, shared_thread by overwriting)
NodeUpdate(state, name, response, thread_id) ==
    [state EXCEPT
        !.messages = @ \o <<HumanMessage(response.content, name)>>,
        !.shared_thread = GetOr(response, "thread_id", thread_id)]

\* the node of the actor the supervisor chose: run_analysis on the last
\* message and the shared thread, then the state update.  The call
\* initializes the agent when it has no assistant and makes a thread when
\* it is given none; it returns a text, returns the dict without
\* "content" (KeyError in the node) or raises.
RouterActorNode ==
    /\ router.pc = "routed"
    /\ router.next \in ActorNames
    /\ router.turns < MaxTurns
    /\ LET a == router.next
           fresh == agents[a].assistant_id = None
           c == NodeCall(router, a)
       IN \E k \in 0..Len(Files(a)), createOk \in BOOLEAN,
             outcome \in {"content", "no_response", "raises"} :
            LET init == Initialize(a, agents[a], Files(a), backend.files[a],
                                   backend.assistants[a], k, createOk)
                initFailed == fresh /\ init.raised
                failed == initFailed \/ outcome = "raises"
                makes == ~initFailed /\ c.thread_id = None
                thread_id == IF initFailed THEN None
                             ELSE IF makes THEN ThreadId(a, router.threads + 1)
                             ELSE c.thread_id
                called == [router EXCEPT
                              !.turns = @ + 1,
                              !.threads = IF makes THEN @ + 1 ELSE @,
                              !.last_call = [actor |-> c.actor, query |-> c.query,
                                             thread_id |-> c.thread_id,
                                             ran_on |-> thread_id]]
            IN  /\ ~fresh => (k = Len(Files(a)) /\ createOk)
                /\ initFailed => outcome = "raises"
                /\ failed => faults < MaxFaults
                /\ faults' = IF failed THEN faults + 1 ELSE faults
                /\ agents' = IF fresh THEN [agents EXCEPT ![a] = init.agent] ELSE agents
                /\ backend' = IF fresh
                              THEN [backend EXCEPT !.files[a] = init.uploaded,
                                                   !.assistants[a] = init.made]
                              ELSE backend
                /\ \/ /\ outcome = "content"
                      /\ \E content \in RouterTexts :
                           router' = [NodeUpdate(called, a,
                                                 [content |-> content,
                                                  thread_id |-> thread_id,
                                                  run_id |-> RunId(thread_id)],
                                                 c.thread_id)
                                      EXCEPT !.pc = "supervisor"]
                   \/ /\ outcome # "content"
                      /\ router' = [called EXCEPT !.pc = "failing"]
    /\ UNCHANGED <<version, ops>>
    /\ UNCHANGED routerFrame

\* a "finally" that returns: the exception of the turn is dropped
RouterExitSwallowing(failing, raised) == "done"

\* how run() is left after the "finally" block: with the exception that
\* left invoke (or one of the block itself), or with the result
RouterExit(failing, raised) == IF failing \/ raised THEN "raised" ELSE "done"

\* the end of run(): the graph reached END or an exception left invoke;
\* "finally" calls cleanup() on every actor, in the order of self.actors;
\* cleaned lists the actors it was called on
RouterFinally ==
    /\ \/ router.pc = "routed" /\ router.next = "FINISH"
       \/ router.pc = "failing"
    /\ \E fail \in SUBSET UNION {Range(MappingIds(agents[a])) : a \in ActorNames} :
         LET s == CleanupSweep(RegisteredActors, agents, fail)
         IN  /\ agents' = s.agents
             /\ router' = [router EXCEPT
                              !.pc = RouterExit(router.pc = "failing", s.raised),
                              !.cleaned = s.called]
    /\ UNCHANGED <<version, backend, faults, ops>>
    /\ UNCHANGED routerFrame

NextRouter ==
    \/ RouterRun
    \/ RouterSupervisor
    \/ RouterActorNode
    \/ RouterFinally

SpecRouter == Init /\ [][NextRouter]_vars

\* ------------------------------------- the context and the actor prompts
\* The orchestrator with each agent call taken as one step: what
\* agent.run_analysis hands back is an input, so that the context can grow
\* to several records per actor.
MaxRecords == 4

\* what agent.run_analysis can return for a run on thread t: the text of
\* the newest assistant message, or the sentinel when there is none
StepResults(t, reused) ==
    {ExtractResult(<<AssistantMessage(<<TextPart(x)>>), UserMessage>>, t, RunId(t)) :
        x \in IF reused THEN {AnalysisText, FollowUpText} ELSE {AnalysisText}}
    \cup {ExtractResult(<<UserMessage>>, t, RunId(t))}

\* what _plan_execution can return: (actor, task) pairs of registered
\* actors
Plans == SeqsUpTo({[actor |-> a, task |-> <<"t1">>] : a \in ActorNames}, MaxPlanLen)

contextFrame == <<agents, backend, trace, created, lastCleanup, remote, planner, router>>

\* run_analysis up to the plan
ContextRunAnalysis ==
    /\ CallAtRest
    /\ ops < MaxOps
    /\ ops' = ops + 1
    /\ \E maintain_context \in BOOLEAN :
         LET ctx == ContextForCall(context, maintain_context)
         IN  /\ context' = ctx
             /\ \/ /\ faults < MaxFaults
                   /\ faults' = faults + 1
                   /\ call' = AbortCall([IdleCall EXCEPT !.maintain = maintain_context,
                                                         !.prompt = PlanningQuery(ctx)],
                                        APIError)
                \/ /\ UNCHANGED faults
                   /\ \E plan \in Plans :
                        call' = [IdleCall EXCEPT
                                    !.pc = "executing", !.maintain = maintain_context,
                                    !.prompt = PlanningQuery(ctx),
                                    !.plan = plan]
    /\ run' = IdleRun
    /\ written' = OrchestratorContext
    /\ UNCHANGED <<version, steps>>
    /\ UNCHANGED contextFrame

\* one turn of the loop of run_analysis: _execute_actor and the store into
\* results
ContextExecuteActor ==
    /\ call.pc = "executing"
    /\ MoreSteps(call)
    /\ steps < MaxRecords
    /\ steps' = steps + 1
    /\ LET step == call.plan[call.i]
           prompt == CreateActorPrompt(context, step.actor, step.task)
           thread_id == context.threads[step.actor]
           t == IF thread_id = None THEN NewThread(step.actor) ELSE thread_id
           asked == [IdleRun EXCEPT !.caller = "step", !.agent = step.actor,
                                    !.query = prompt, !.tidArg = thread_id,
                                    !.thread_id = t]
       IN  \/ /\ faults < MaxFaults
              /\ faults' = faults + 1
              /\ run' = asked
              /\ call' = OnStepException(call, APIError)
              /\ UNCHANGED <<context, written>>
           \/ /\ UNCHANGED faults
              /\ \E result \in StepResults(t, thread_id # None) :
                   /\ run' = [asked EXCEPT !.result = result]
                   /\ context' = ExecuteActorRecord(context, step.actor, step.task,
                                                    thread_id, result)
                   /\ written' = ExecuteActorRecord(written, step.actor, step.task,
                                                    thread_id, result)
                   /\ call' = IF "content" \notin DOMAIN result
                              THEN OnStepException(call, KeyError)
                              ELSE [call EXCEPT
                                      !.i = @ + 1,
                                      !.results = DictSet(@, step.actor, result.content)]
    /\ UNCHANGED <<version, ops>>
    /\ UNCHANGED contextFrame

\* the plan is done: the answer (v2: the text of the synthesis) and the
\* response
ContextReturn ==
    /\ call.pc = "executing"
    /\ ~MoreSteps(call)
    /\ call' = [call EXCEPT
                  !.pc = "returned",
                  !.response = Response(call,
                      IF version = 1
                      THEN [i \in 1..Len(call.results) |->
                              <<"From", call.results[i].actor, call.results[i].content>>]
                      ELSE AnalysisText)]
    /\ run' = IdleRun
    /\ UNCHANGED <<version, context, written, ops, steps, faults>>
    /\ UNCHANGED contextFrame

\* cleanup(full): no agent holds a file here, the sweep deletes nothing
ContextCleanup ==
    /\ CallAtRest
    /\ call.pc # "idle"
    /\ \E full \in BOOLEAN :
         LET s == CleanupSweep(CleanupTargets, agents, {})
         IN  /\ agents' = s.agents
             /\ context' = IF s.raised THEN context ELSE ContextAfterCleanup(context, full)
    /\ call' = IdleCall
    /\ run' = IdleRun
    /\ written' = OrchestratorContext
    /\ UNCHANGED <<version, ops, steps, faults, backend, trace, created, lastCleanup>>
    /\ UNCHANGED auxVars

NextContext ==
    \/ ContextRunAnalysis
    \/ ContextExecuteActor
    \/ ContextReturn
    \/ ContextCleanup

SpecContext == Init /\ [][NextContext]_vars

\* --------------------------------------------- the lines of a plan
\* _plan_execution on its own: the text the planner answered, then the
\* parsing loop.  The answers also hold a line whose prefix before the
\* "." is a word and not an ordinal.
PlanLinesWide ==
    PlanLines \cup { <<"Step", ".", " ", "organization_specialist", ":", "t1">> }

planLinesFrame == <<version, agents, backend, context, steps, faults, trace, written,
                    created, lastCleanup, remote, planner, router>>

\* the planning call returned its text (v1: the chat completion, v2: the
\* planner's run_analysis)
PlanLinesAnswer ==
    /\ CallAtRest
    /\ ops < MaxOps
    /\ ops' = ops + 1
    /\ \E response \in SeqsUpTo(PlanLinesWide, MaxPlanLen) :
         run' = [IdleRun EXCEPT !.pc = "done", !.caller = "plan", !.agent = Planner,
                                !.result = [content |-> response]]
    /\ call' = [IdleCall EXCEPT !.pc = "planning"]
    /\ UNCHANGED planLinesFrame

\* the parsing loop
PlanLinesParse ==
    /\ call.pc = "planning"
    /\ run.pc = "done"
    /\ call' = [call EXCEPT !.pc = "returned", !.plan = ParsePlan(run.result.content)]
    /\ UNCHANGED <<run, ops>>
    /\ UNCHANGED planLinesFrame

NextPlanLines ==
    \/ PlanLinesAnswer
    \/ PlanLinesParse

SpecPlanLines == Init /\ [][NextPlanLines]_vars

\* ------------------------------------------------------------ properties
\* the actor of the step the orchestrator is executing
StepInFlight == call.pc = "in_step"
StepActor == call.plan[call.i].actor
LastEvent == IF trace = <<>> THEN Event("none") ELSE trace[Len(trace)]

\* C1: every turn for actor A submitted after A's first recorded turn is
\* submitted with the thread id that A's first recorded turn returned.
\* (The second sentence of the claim, that a stored thread id never changes
\* within a context, is C1_StoredThreadStable below.)
C1_TurnsReuseFirstThread ==
    (StepInFlight /\ context.actor_results[StepActor] # <<>>)
        => /\ run.tidArg # None
           /\ run.tidArg = Get(context.actor_results[StepActor][1], "thread_id")

\* C1, second sentence: while the context is not replaced, a thread id
\* stored for an actor stays as it is.
C1_StoredThreadStable ==
    [][\A a \in ActorNames :
         (context.threads[a] # None /\ context' # OrchestratorContext)
             => context'.threads[a] = context.threads[a]]_vars

\* C2: within one context lifetime the backend creates a thread for an
\* actor at most once, whether the calls succeed or abort.
C2_ThreadCreatedOnce ==
    \A a \in ActorNames : created[a] <= 1

\* C3: in a call with maintain_context = false the context was replaced
\* before planning: the planning prompt shows no earlier record or history
\* entry, every step's prompt and thread id come from what this call itself
\* recorded, an actor's first turn in the call carries no thread id, and the
\* context holds exactly what this call recorded.
C3_FreshContext ==
    (call.pc # "idle" /\ ~call.maintain)
        => /\ context = written
           /\ call.prompt = PlanningQuery(OrchestratorContext)
           /\ (call.pc = "planning" /\ version = 2) => run.query = call.prompt
           /\ StepInFlight =>
                /\ run.query = CreateActorPrompt(written, StepActor,
                                                 call.plan[call.i].task)
                /\ run.tidArg = written.threads[StepActor]
                /\ (\A j \in 1..(call.i - 1) : call.plan[j].actor # StepActor)
                       => run.tidArg = None

\* C3 witness: the call dropped a non-empty context, and a step of an actor
\* the backend already made a thread for is submitted without a thread id
C3_Witness ==
    /\ StepInFlight
    /\ ~call.maintain
    /\ StepActor \in call.dropped
    /\ run.pc = "submit"
    /\ run.tidArg = None

\* C4: when planning or a step raises, the call raises: the raise is the
\* last event of the call (no later step, no synthesis) and no response is
\* returned.
C4_ErrorAborts ==
    /\ \A j \in 1..Len(trace) :
         trace[j].ev = "raise"
             => (j = Len(trace) /\ call.pc = "raised" /\ call.response = NoResult)
    /\ call.pc = "raised"
         => (LastEvent.ev = "raise" /\ call.response = NoResult /\ run.pc = "none")
    /\ call.pc = "returned" => \A j \in 1..Len(trace) : trace[j].ev # "raise"

\* C4 witness: step 1 of a two-step plan raised and the call is over
C4_Witness ==
    /\ call.pc = "raised"
    /\ Len(call.plan) = 2
    /\ call.i = 1
    /\ Len(trace) = 4
    /\ trace[3].ev = "turn_start"

\* the events of a complete call over "plan", in order
RECURSIVE TurnEvents(_, _)
TurnEvents(plan, k) ==
    IF k > Len(plan) THEN <<>>
    ELSE <<TurnEvent("turn_start", k, plan[k].actor),
           TurnEvent("turn_end", k, plan[k].actor)>> \o TurnEvents(plan, k + 1)

CallEvents(plan) ==
    <<Event("plan_start"), Event("plan_end")>> \o TurnEvents(plan, 1)
    \o (IF version = 2 THEN <<Event("synth_start"), Event("synth_end")>> ELSE <<>>)
    \o <<Event("return")>>

\* C5: planning completes before the first turn, the turns happen one at a
\* time in plan order, synthesis starts after the last turn returned: the
\* events of a call are a prefix of plan, turn 1, ..., turn n, synthesis,
\* return (a raise may end it while something is in flight), and an agent
\* run is in flight exactly between a start event and its end.
C5_Sequential ==
    LET body == IF LastEvent.ev = "raise" THEN SubSeq(trace, 1, Len(trace) - 1)
                ELSE trace
    IN  /\ IsPrefix(body, CallEvents(call.plan))
        /\ LastEvent.ev = "raise" => body[Len(body)].ev \in
                                        {"plan_start", "turn_start", "synth_start"}
        /\ run.caller = "plan" <=> (version = 2 /\ LastEvent.ev = "plan_start")
        /\ run.caller = "step" <=> LastEvent.ev = "turn_start"
        /\ run.caller = "step" => (run.agent = LastEvent.actor /\ LastEvent.k = call.i)
        /\ run.caller = "synthesis" <=> LastEvent.ev = "synth_start"

\* C5 witness: a call over a plan of two different actors returned
C5_Witness ==
    /\ call.pc = "returned"
    /\ Len(call.plan) = 2
    /\ call.plan[1].actor # call.plan[2].actor
    /\ trace = CallEvents(call.plan)

\* C6: Actor.cleanup() attempts one delete per file id of the mapping, in
\* order, goes on after a failed delete, does not raise, and leaves the
\* mapping empty.
C6_CleanupDeletesAll ==
    lastCleanup.kind = "actor"
        => /\ lastCleanup.attempted = lastCleanup.before
           /\ ~lastCleanup.raised
           /\ lastCleanup.after = <<>>
           /\ agents[lastCleanup.agent].file_mapping = <<>>
           /\ Range(lastCleanup.logged) \subseteq Range(lastCleanup.attempted)

\* C6 witness: two files were mapped, the delete of the first one failed
C6_Witness ==
    /\ lastCleanup.kind = "actor"
    /\ Len(lastCleanup.before) = 2
    /\ lastCleanup.logged # <<>>
    /\ lastCleanup.logged[1] = lastCleanup.before[1]
    /\ Len(lastCleanup.attempted) = 2

\* the ids cleanup() of each target had in its mapping, target after target
RECURSIVE MappedBefore(_, _)
MappedBefore(targets, before) ==
    IF targets = <<>> THEN <<>>
    ELSE before[Head(targets)] \o MappedBefore(Tail(targets), before)

\* C7: Orchestrator.cleanup calls cleanup() on every registered actor and
\* (v2) on the planner, also when a delete of an earlier actor failed: the
\* failure is logged and every later agent is still cleaned up.
C7_CleanupEveryActor ==
    lastCleanup.kind = "orchestrator"
        => /\ lastCleanup.called = CleanupTargets
           /\ ~lastCleanup.raised
           /\ lastCleanup.attempted = MappedBefore(CleanupTargets, lastCleanup.before)
           /\ Range(lastCleanup.logged) \subseteq Range(lastCleanup.attempted)
           /\ \A a \in Range(CleanupTargets) : agents[a].file_mapping = <<>>

\* C7 witness: both actors had a file, the delete of the first actor's file
\* failed and was logged, and the second actor's file was still attempted
C7_Witness ==
    /\ lastCleanup.kind = "orchestrator"
    /\ lastCleanup.before[RegisteredActors[1]] # <<>>
    /\ lastCleanup.before[RegisteredActors[2]] # <<>>
    /\ lastCleanup.logged = <<lastCleanup.before[RegisteredActors[1]][1]>>
    /\ lastCleanup.before[RegisteredActors[2]][1] \in Range(lastCleanup.attempted)

\* C8: cleanup(full=true) leaves an empty context, cleanup(full=false)
\* leaves threads, actor_results and history as they were; and every step
\* is submitted on the thread id the context holds for its actor, so after
\* cleanup(full=false) the stored thread ids are the ones used.
C8_CleanupScope ==
    /\ [][lastCleanup'.kind = "orchestrator"
            => IF lastCleanup'.full THEN context' = OrchestratorContext
               ELSE context' = context]_vars
    /\ [](StepInFlight => run.tidArg = context.threads[StepActor])

\* C8 witness: right after cleanup(full=false) a call with
\* maintain_context = true submits a step on the thread id that was stored
C8_Witness ==
    /\ StepInFlight
    /\ call.after = "partial"
    /\ call.maintain
    /\ call.i = 1
    /\ run.tidArg # None
    /\ run.tidArg = context.threads[StepActor]

\* C9: once a poll of Actor.run_analysis observed failed, expired or
\* cancelled, the call has raised RunFailedError carrying that status and
\* returned no content (it polls no more).
C9_FailureRaises ==
    run.seen # "none"
        => /\ run.pc = "raised"
           /\ run.exc = RunFailedError(run.seen)
           /\ run.result = NoResult

\* C10: transient polling errors are retried at most max_retries times:
\* when the error caught last is a transient one and max_retries errors were
\* caught, the call has raised MaxRetriesExceededError wrapping that error
\* and polls no more.
C10_RetryBudget ==
    (version = 1 /\ run.caller # "none" /\ run.lastError = APIError
                 /\ run.retries >= run.max_retries)
        => /\ run.pc = "raised"
           /\ run.exc = MaxRetriesExceededError(APIError)

\* C11: the status-polling loop is bounded: a call that is polling makes
\* finitely many status checks and then leaves the loop (returns or raises),
\* whatever statuses the backend reports.
C11_PollingLoopEnds == (run.pc = "poll") ~> (run.pc # "poll")

\* C12: across any sequence of initialize() and run_analysis() calls on one
\* agent, at most one assistant is created and no configured file is
\* uploaded twice, so the uploads never outnumber the configured files.
C12_InitializeOnce ==
    /\ backend.assistants[Solo] <= 1
    /\ backend.files[Solo] <= Len(Files(Solo))

\* C13: cleanup() leaves assistant_id as it was; once the agent has an
\* assistant and an empty file mapping, every step other than an explicit
\* initialize() (so every run_analysis) keeps the same assistant and the
\* empty mapping, uploads no file, creates no assistant and never enters
\* initialize.
C13_CleanupKeepsAssistant ==
    [][ /\ DirectCleanup => agents'[Solo].assistant_id = agents[Solo].assistant_id
        /\ ( /\ agents[Solo].assistant_id # None
             /\ agents[Solo].file_mapping = <<>>
             /\ ~DirectInitialize )
           => /\ agents'[Solo] = agents[Solo]
              /\ backend'.files = backend.files
              /\ backend'.assistants = backend.assistants
              /\ run'.pc # "init" ]_vars

\* a run_analysis issued after cleanup() has returned its result
C13_Witness ==
    /\ run.pc = "done"
    /\ run.caller = "direct"
    /\ agents[Solo].assistant_id # None
    /\ agents[Solo].file_mapping = <<>>

\* ---- the planner
PlanMade == planner.pc \in {"planned", "again"}

\* the plans the two runs returned
PlansMade ==
    (IF PlanMade /\ planner.result.kind = "plan" THEN {planner.result} ELSE {})
    \cup (IF planner.pc = "again" /\ planner.again.result.kind = "plan"
          THEN {planner.again.result} ELSE {})

ScenarioRegistrations ==
    << [name |-> "customer", capabilities |-> ActorCapabilities({"CUSTOMER"}, {})],
       [name |-> "organization",
        capabilities |-> ActorCapabilities({"ORGANIZATION"}, {"GEOGRAPHIC"})] >>

ScenarioPlanned ==
    /\ PlanMade
    /\ planner.regs = ScenarioRegistrations
    /\ planner.required = [kind |-> "ok", data |-> <<"CUSTOMER", "ORGANIZATION">>,
                           analyses |-> <<"GEOGRAPHIC">>]

\* C14: with customer (data CUSTOMER) registered before organization (data
\* ORGANIZATION, analysis GEOGRAPHIC) and the classifier result
\* [CUSTOMER, ORGANIZATION] / [GEOGRAPHIC], the plan has exactly the steps
\* retrieve customer data by customer, retrieve organization data by
\* organization, perform geographic analysis by organization with
\* depends_on = [customer, organization], in this order.
C14_ThreeStepPlan ==
    ScenarioPlanned =>
        /\ planner.result.kind = "plan"
        /\ [i \in 1..Len(planner.result.steps) |->
               <<planner.result.steps[i].actor_name, planner.result.steps[i].action,
                 planner.result.steps[i].depends_on>>]
           = << <<"customer", <<"retrieve", "customer", "data">>, <<>> >>,
                <<"organization", <<"retrieve", "organization", "data">>, <<>> >>,
                <<"organization", <<"perform", "geographic", "analysis">>,
                  <<"customer", "organization">> >> >>

C14_Witness == ScenarioPlanned /\ planner.result.kind = "plan"

IsDataStep(step) == step.action[1] = "retrieve"

\* C15: in every returned plan each name in a step's depends_on is the
\* actor of a step at a strictly smaller index, and the data-retrieval
\* steps have an empty depends_on.
C15_DependsOnEarlier ==
    \A plan \in PlansMade :
        \A i \in 1..Len(plan.steps) :
            /\ \A n \in Range(plan.steps[i].depends_on) :
                   \E j \in 1..(i - 1) : plan.steps[j].actor_name = n
            /\ IsDataStep(plan.steps[i]) => plan.steps[i].depends_on = <<>>

\* a plan with an analysis step that depends on two earlier steps
C15_Witness ==
    \E plan \in PlansMade :
        \E i \in 1..Len(plan.steps) : Len(plan.steps[i].depends_on) >= 2

\* C16: a second run with the same register_actor calls and the same
\* answer of the language model returns the same sequence of steps.
C16_Deterministic ==
    (planner.pc = "again" /\ ~planner.again.fenced /\ planner.result.kind = "plan")
    => /\ planner.again.result.kind = "plan"
       /\ planner.again.result.steps = planner.result.steps

\* the register_actor history: where a name was first registered, and the
\* capabilities it was registered with last
FirstRegistered(name) ==
    SetMin({i \in 1..Len(planner.regs) : planner.regs[i].name = name})
CapabilitiesOf(name) ==
    planner.regs[SetMax({i \in 1..Len(planner.regs) :
                           planner.regs[i].name = name})].capabilities
RegisteredNames == {planner.regs[i].name : i \in 1..Len(planner.regs)}

\* actor "name" supports the type of kind "data" or "analysis"
Supports(name, kind, type) ==
    IF kind = "data" THEN type \in CapabilitiesOf(name).supported_data_types
    ELSE type \in CapabilitiesOf(name).supported_analyses

StepKind(step) == IF IsDataStep(step) THEN "data" ELSE "analysis"
StepType(step) == step.expected_output[1]

\* the (kind, type) pairs a classifier result asks for
RequiredTypes(required) ==
    {<<"data", required.data[i]>> : i \in 1..Len(required.data)}
    \cup {<<"analysis", required.analyses[i]>> : i \in 1..Len(required.analyses)}

Unsupported(required) ==
    {t \in RequiredTypes(required) : \A n \in RegisteredNames : ~Supports(n, t[1], t[2])}

\* C17: every step of a plan is assigned to the earliest-registered actor
\* whose capabilities contain the step's data or analysis type; when some
\* required type has no such actor, plan creation raises the no-actor error.
C17_EarliestCapableActor ==
    /\ \A plan \in PlansMade :
          \A i \in 1..Len(plan.steps) :
             LET step == plan.steps[i]
             IN  /\ step.actor_name \in RegisteredNames
                 /\ Supports(step.actor_name, StepKind(step), StepType(step))
                 /\ \A n \in RegisteredNames :
                       FirstRegistered(n) < FirstRegistered(step.actor_name)
                       => ~Supports(n, StepKind(step), StepType(step))
    /\ (PlanMade /\ planner.required.kind = "ok" /\ Unsupported(planner.required) # {})
       => /\ planner.result.kind = "raised"
          /\ IsNoActorFound(planner.result.exc)

\* a plan with a step that two registered actors could have taken
C17_Witness ==
    /\ PlanMade
    /\ planner.result.kind = "plan"
    /\ \E i \in 1..Len(planner.result.steps) :
         LET step == planner.result.steps[i]
         IN  \E n \in RegisteredNames \ {step.actor_name} :
                Supports(n, StepKind(step), StepType(step))

\* the answer parses to an object with both fields, each a list of known
\* names, and every named type has a capable actor
Acceptable(response) ==
    /\ response # NoContent
    /\ LET doc == JsonLoads(CleanJsonResponse(response))
       IN  /\ doc.ok
           /\ doc.value.kind = "dict"
           /\ doc.value.data.is = "list"
           /\ doc.value.analyses.is = "list"
           /\ Range(doc.value.data.items) \subseteq DataTypes
           /\ Range(doc.value.analyses.items) \subseteq AnalysisTypes
           /\ \A dt \in Range(doc.value.data.items) :
                 \E n \in RegisteredNames : Supports(n, "data", dt)
           /\ \A at \in Range(doc.value.analyses.items) :
                 \E n \in RegisteredNames : Supports(n, "analysis", at)

RequestedSteps(response) ==
    LET doc == JsonLoads(CleanJsonResponse(response))
    IN  Len(doc.value.data.items) + Len(doc.value.analyses.items)

\* C18: create_execution_plan returns a plan exactly when the payload
\* parses, is an object with both fields, names only known types and every
\* required type has a capable actor; otherwise it raises and returns
\* nothing, and a returned plan has a step for every required type.
C18_PlanOrRaise ==
    PlanMade =>
        /\ planner.result.kind \in {"plan", "raised"}
        /\ planner.result.kind = "plan" <=> Acceptable(planner.response)
        /\ planner.result.kind = "raised" => DOMAIN planner.result = {"kind", "exc"}
        /\ planner.result.kind = "plan"
           => Len(planner.result.steps) = RequestedSteps(planner.response)

\* plan creation raised because a required data type has no capable actor
\* although another required type has one
C18_Witness ==
    /\ PlanMade
    /\ planner.result.kind = "raised"
    /\ planner.required.kind = "ok"
    /\ Unsupported(planner.required) # {}
    /\ Unsupported(planner.required) # RequiredTypes(planner.required)

\* C19: when the answer P is a JSON text that is parsed to required data
\* types and analyses, the answer made of P inside a fence with the json
\* tag is parsed to the same data types and analyses.
C19_FenceEquivalence ==
    ( /\ planner.pc = "again"
      /\ planner.again.fenced
      /\ JsonLoads(StripText(planner.response)).ok
      /\ planner.required.kind = "ok" )
    => planner.again.required = planner.required

\* ---- the router
LastMessage == router.messages[Len(router.messages)]

HasCompletionPhrase(message) ==
    \E phrase \in CompletionPhrases : Contains(LowerText(message.content), phrase)

HasKeyword(message) ==
    \E word \in {"organization", "company", "customer", "individual"} :
        Contains(LowerText(message.content), <<word>>)

\* C20: whenever the latest message, lowercased, contains a completion
\* phrase, the supervisor decides FINISH, whatever keywords it contains and
\* whoever produced it; when the initial query contains one, the run ends
\* without an actor turn.
C20_CompletionFinishes ==
    /\ (router.pc = "routed" /\ HasCompletionPhrase(LastMessage))
       => router.next = "FINISH"
    /\ (router.pc \in {"routed", "failing", "done", "raised"}
        /\ HasCompletionPhrase(router.messages[1]))
       => /\ router.turns = 0
          /\ Len(router.messages) = 1
          /\ router.pc \in {"routed", "done"}

\* the supervisor decided on an actor's message that holds a completion
\* phrase and a routing keyword for the other actor
C20_Witness ==
    /\ router.pc = "routed"
    /\ Len(router.messages) > 1
    /\ HasCompletionPhrase(LastMessage)
    /\ HasKeyword(LastMessage)
    /\ router.next = "FINISH"

Mentions(message, words) ==
    \E word \in words : Contains(LowerText(message.content), <<word>>)

\* C21: for a latest message without a completion phrase the supervisor
\* decides: the organization specialist if the message mentions
\* organization or company and the previous actor is not that specialist;
\* else the customer specialist if it mentions customer or individual and
\* the previous actor is not that specialist; else the organization
\* specialist after the customer specialist and the customer specialist
\* otherwise.
C21_RoutingOrder ==
    (router.pc = "routed" /\ ~HasCompletionPhrase(LastMessage))
    => router.next =
         (IF /\ Mentions(LastMessage, {"organization", "company"})
             /\ LastMessage.name # "organization_specialist"
          THEN "organization_specialist"
          ELSE IF /\ Mentions(LastMessage, {"customer", "individual"})
                  /\ LastMessage.name # "customer_specialist"
          THEN "customer_specialist"
          ELSE IF LastMessage.name = "customer_specialist"
          THEN "organization_specialist"
          ELSE "customer_specialist")

\* the supervisor decided on a message that mentions both kinds of keyword
\* and comes from the initial query or from the customer specialist
C21_Witness ==
    /\ router.pc = "routed"
    /\ ~HasCompletionPhrase(LastMessage)
    /\ Mentions(LastMessage, {"organization", "company"})
    /\ Mentions(LastMessage, {"customer", "individual"})
    /\ router.next = "organization_specialist"

ActorTurnDone == router.pc = "routed" /\ router'.pc = "supervisor"

\* C22: an actor turn of the router runs the chosen actor's run_analysis
\* on the latest message with the thread id carried in the state, appends
\* exactly one message named after that actor and returns to the
\* supervisor; the first turn makes the thread, and every later turn of
\* either actor runs on that same thread, so a run makes one thread at most.
C22_ActorTurn ==
    [][ ActorTurnDone =>
          /\ router'.last_call.actor = router.next
          /\ router'.last_call.query = LastMessage.content
          /\ router'.last_call.thread_id = router.shared_thread
          /\ Len(router'.messages) = Len(router.messages) + 1
          /\ SubSeq(router'.messages, 1, Len(router.messages)) = router.messages
          /\ router'.messages[Len(router'.messages)].name = router.next
          /\ router'.shared_thread = router'.last_call.ran_on
          /\ router'.shared_thread # None
          /\ router.turns = 0 => router.shared_thread = None /\ router'.threads = 1
          /\ router.turns > 0 => /\ router'.last_call.ran_on = router.shared_thread
                                 /\ router'.threads = router.threads ]_vars

\* the second actor turn of a run, taken by the other actor, is done
C22_Witness ==
    /\ router.pc = "supervisor"
    /\ router.turns = 2
    /\ router.messages[2].name # router.messages[3].name
    /\ router.threads = 1

\* C23: a run enters the graph at the supervisor with no actor turn taken;
\* actor turns happen one at a time, each one out of a supervisor decision
\* for that actor and followed by the supervisor or by the exception
\* leaving the run; the run ends normally only out of a supervisor
\* decision of FINISH; and however many turns were taken, a supervisor
\* decision on a message without a completion phrase is an actor, never
\* FINISH.
C23_OnlyFinishEnds ==
    [][ /\ (router.pc \in {"idle", "done", "raised"} /\ router'.pc # router.pc)
           => /\ router'.pc = "supervisor"
              /\ router'.turns = 0
              /\ Len(router'.messages) = 1
        /\ router'.turns # router.turns /\ router'.turns # 0
           => /\ router'.turns = router.turns + 1
              /\ router.pc = "routed"
              /\ router.next \in ActorNames
              /\ router'.last_call.actor = router.next
              /\ router'.pc \in {"supervisor", "failing"}
        /\ router.pc = "supervisor" => router'.pc = "routed"
        /\ (router'.pc = "done" /\ router.pc # "done")
           => /\ router.pc = "routed"
              /\ router.next = "FINISH"
              /\ HasCompletionPhrase(LastMessage)
        /\ router'.pc = "routed"
           => IF HasCompletionPhrase(LastMessage')
              THEN router'.next = "FINISH"
              ELSE router'.next \in ActorNames ]_vars

\* after two actor turns without a completion phrase anywhere in the
\* transcript the supervisor routes to an actor once more
C23_Witness ==
    /\ router.pc = "routed"
    /\ router.turns = 2
    /\ router.next \in ActorNames
    /\ \A i \in 1..Len(router.messages) : ~HasCompletionPhrase(router.messages[i])

\* the actor names of a plan, in order
PlanActors(plan) == [i \in 1..Len(plan) |-> plan[i].actor]

\* the content of the record the current call stored last for actor a
LastWritten(a) == written.actor_results[a][Len(written.actor_results[a])].content

\* C24: a run_analysis call that returned gives steps_executed equal to the
\* number of plan steps; actors_used is the actor of each plan step in
\* execution order, repeats kept, so each actor is in it once for each
\* record the call stored for it; and results has one entry for each actor
\* used and for no other, holding the content of the last step that actor
\* ran in this call.
C24_ResponseOnSuccess ==
    call.pc = "returned" =>
        LET r == call.response
        IN  /\ r.steps_executed = Len(call.plan)
            /\ r.actors_used = PlanActors(call.plan)
            /\ version = 2
                 => r.actors_used = [i \in 1..Len(written.history) |-> written.history[i][1]]
            /\ \A a \in ActorNames :
                  Len(written.actor_results[a])
                    = Cardinality({i \in 1..Len(r.actors_used) : r.actors_used[i] = a})
            /\ {r.results[i].actor : i \in 1..Len(r.results)} = Range(r.actors_used)
            /\ \A i, j \in 1..Len(r.results) :
                  r.results[i].actor = r.results[j].actor => i = j
            /\ \A i \in 1..Len(r.results) :
                  r.results[i].content = LastWritten(r.results[i].actor)

\* a call returned after two steps of one actor whose contents differ
C24_Witness ==
    /\ call.pc = "returned"
    /\ Len(call.plan) = 2
    /\ call.plan[1].actor = call.plan[2].actor
    /\ call.response.actors_used = <<call.plan[1].actor, call.plan[1].actor>>
    /\ LET records == written.actor_results[call.plan[1].actor]
       IN  /\ Len(records) = 2
           /\ records[1].content = AnalysisText
           /\ records[2].content = FollowUpText
    /\ Len(call.response.results) = 1
    /\ call.response.results[1].content = FollowUpText

\* the number of records the context holds over all actors
RECURSIVE RecordCount(_, _)
RecordCount(ctx, names) ==
    IF names = <<>> THEN 0
    ELSE Len(ctx.actor_results[Head(names)]) + RecordCount(ctx, Tail(names))

\* C25: in every reachable context the history has as many entries as
\* there are records over all actors, each executed step having added one
\* record under its actor and one history entry naming the actor and task.
C25_HistoryMatchesRecords ==
    /\ Len(context.history) = RecordCount(context, RegisteredActors)
    /\ \A i \in 1..Len(context.history) :
          /\ context.history[i][1] \in ActorNames
          /\ context.actor_results[context.history[i][1]] # <<>>

\* C26: a cleanup(full = true) that comes right after another
\* cleanup(full = true) does not raise, finds every file mapping empty and
\* attempts no delete, and leaves what the first one left: the empty
\* context and empty file mappings.  With no actor registered the sweep
\* over the actors has nothing to call, attempts nothing and does not raise.
C26_CleanupTwice ==
    /\ (/\ lastCleanup.kind = "orchestrator"
        /\ lastCleanup.full
        /\ lastCleanup.previous = "full")
           => /\ ~lastCleanup.raised
              /\ lastCleanup.called = CleanupTargets
              /\ \A a \in AgentNames : lastCleanup.before[a] = <<>>
              /\ lastCleanup.attempted = <<>>
              /\ lastCleanup.logged = <<>>
              /\ context = OrchestratorContext
              /\ \A a \in Range(CleanupTargets) : agents[a].file_mapping = <<>>
    /\ lastCleanup.kind = "orchestrator"
         => LET s == CleanupSweep(<<>>, agents, {})
            IN  ~s.raised /\ s.called = <<>> /\ s.attempted = <<>> /\ s.agents = agents

\* the second of two full cleanups in a row, on an orchestrator whose
\* actors had uploaded files before the first one
C26_Witness ==
    /\ lastCleanup.kind = "orchestrator"
    /\ lastCleanup.full
    /\ lastCleanup.previous = "full"
    /\ \E a \in ActorNames : backend.files[a] > 0 /\ agents[a].assistant_id # None

\* C27: every record the context holds for an actor has the fields
\* content, thread_id and run_id, whatever the actor's run_analysis
\* returned, the "no response" sentinel included.
C27_RecordFields ==
    \A a \in ActorNames :
        \A i \in 1..Len(context.actor_results[a]) :
            {"content", "thread_id", "run_id"} \subseteq DOMAIN context.actor_results[a][i]

\* a step that ends the lifetime of the context: the entry of a
\* run_analysis call with maintain_context = false, or a cleanup(full = true)
ContextReplaced ==
    \/ call.pc # "planning" /\ call'.pc = "planning" /\ ~call'.maintain
    \/ lastCleanup'.kind = "orchestrator" /\ lastCleanup'.full

\* C28: over every step that does not end the lifetime of the context,
\* run_analysis calls with maintain_context = true and cleanup(full = false)
\* included, the records of each actor before the step are a prefix of its
\* records after it: none is removed, reordered or modified.
C28_AppendOnly ==
    [][ ~ContextReplaced
          => \A a \in ActorNames :
                IsPrefix(context.actor_results[a], context'.actor_results[a]) ]_vars

\* a call with maintain_context = true that came right after a
\* cleanup(full = false) added a second record to the one an earlier call
\* had stored for the actor
C28_Witness ==
    /\ call.maintain
    /\ call.after = "partial"
    /\ \E a \in ActorNames :
          /\ Len(context.actor_results[a]) = 2
          /\ Len(written.actor_results[a]) = 1

Ordinals == {"1", "2", "3", "4", "5", "6", "7", "8", "9"}

\* the text of a line before its first ":", without a leading "N." and
\* without the blanks around it
NamedBeforeColon(line) ==
    LET text == Strip(BeforeFirst(line, ":"))
    IN  IF Len(text) >= 2 /\ text[1] \in Ordinals /\ text[2] = "."
        THEN Strip(SubSeq(text, 3, Len(text)))
        ELSE text

\* the actors of the lines that hold a ":" and name a registered actor
\* before it, in line order
RECURSIVE ActorsNamedByLines(_)
ActorsNamedByLines(lines) ==
    IF lines = <<>> THEN <<>>
    ELSE (IF IndexOf(Head(lines), ":", 1) # 0 /\ NamesActor(NamedBeforeColon(Head(lines)))
          THEN <<NamedBeforeColon(Head(lines))[1]>> ELSE <<>>)
         \o ActorsNamedByLines(Tail(lines))

\* C29: the plan made from a planning response has one step for each line
\* whose text before the first ":" is, without a leading ordinal prefix
\* "N." and the blanks around it, the name of a registered actor, in line
\* order, and no step for any other line; and every step of the plan names
\* a registered actor.
C29_PlanFromLines ==
    (call.pc = "returned" /\ run.caller = "plan")
        => /\ PlanActors(call.plan) = ActorsNamedByLines(run.result.content)
           /\ \A i \in 1..Len(call.plan) : call.plan[i].actor \in ActorNames

\* a turn of the loop was taken: the prompt is in run', the context it was
\* built from is the one before the step
StepAsked == steps' = steps + 1

\* what a prompt shows of a record
ShownContent(record, default) ==
    IF version = 1 THEN EscapeText(GetOr(record, "content", default))
    ELSE GetOr(record, "content", default)

\* C30: the prompt of a step of actor A has one entry for each record the
\* context holds for A when the step starts, in the order of the records,
\* or the fixed text when there is none; the records this call stored
\* earlier are among them; and in v2 the section of the other actors has,
\* for each other actor with records, its latest record only, and nothing
\* for A (v1 has no such section).
C30_PromptShowsRecords ==
    [][ StepAsked =>
          LET a == run'.agent
              p == run'.query
              records == context.actor_results[a]
              own == written.actor_results[a]
          IN  /\ a = call.plan[call.i].actor
              /\ IF records = <<>>
                 THEN p.history = <<"No previous context.">>
                 ELSE /\ Len(p.history) = Len(records)
                      /\ \A i \in 1..Len(records) :
                            p.history[i] =
                              <<"Previous analysis",
                                ShownContent(records[i], << <<"No content">> >>)>>
              /\ Len(own) <= Len(records)
              /\ \A i \in 1..Len(own) : records[Len(records) - Len(own) + i] = own[i]
              /\ \A x \in p.others : x[1] # a
              /\ IF version = 1 THEN p.others = {}
                 ELSE /\ {x[1] : x \in p.others}
                           = {o \in ActorNames \ {a} : context.actor_results[o] # <<>>}
                      /\ \A x \in p.others :
                            LET theirs == context.actor_results[x[1]]
                            IN  x[2] = GetOr(theirs[Len(theirs)], "content", <<>>) ]_vars

\* a prompt built in v2 for an actor with two records whose contents
\* differ, the first of an earlier call and the second of this call, while
\* the other actor has a record too
C30_Witness ==
    /\ version = 2
    /\ run.caller = "step"
    /\ Len(run.query.history) = 2
    /\ run.query.history[1] # run.query.history[2]
    /\ run.query.others # {}
    /\ Len(written.actor_results[run.agent]) = 2
    /\ Len(context.actor_results[run.agent]) = 3


\* ---- the planner, continued
\* the actors of the data-retrieval steps of a plan, in step order
DataStepActors(plan_steps) ==
    LET picked == SelectSeq([i \in 1..Len(plan_steps) |-> i],
                            LAMBDA i : IsDataStep(plan_steps[i]))
    IN  [k \in 1..Len(picked) |-> plan_steps[picked[k]].actor_name]

\* C31: in every returned plan the depends_on of every analysis step is
\* exactly the list of the actors of the plan's data-retrieval steps, one
\* entry per data-retrieval step in step order; an earlier analysis step
\* adds no entry to the depends_on of a later one.
C31_DependsOnDataSteps ==
    \A plan \in PlansMade :
        \A i \in 1..Len(plan.steps) :
            ~IsDataStep(plan.steps[i])
            => plan.steps[i].depends_on = DataStepActors(plan.steps)


\* C32: a returned plan has one step per entry of the required data types
\* followed by one step per entry of the required analyses, each group in
\* the classifier's order, so Len(steps) is the sum of the two lengths and
\* every data-retrieval step precedes every analysis step; required_actors
\* is exactly the set of the actor names of the steps.
C32_StepPerRequirement ==
    (PlanMade /\ planner.result.kind = "plan")
    => LET plan_steps == planner.result.steps
           data == planner.required.data
           analyses == planner.required.analyses
       IN  /\ planner.required.kind = "ok"
           /\ Len(plan_steps) = Len(data) + Len(analyses)
           /\ \A i \in 1..Len(data) :
                 /\ IsDataStep(plan_steps[i])
                 /\ StepType(plan_steps[i]) = data[i]
                 /\ plan_steps[i].required_data = <<data[i]>>
           /\ \A j \in 1..Len(analyses) :
                 /\ ~IsDataStep(plan_steps[Len(data) + j])
                 /\ plan_steps[Len(data) + j].action[1] = "perform"
                 /\ StepType(plan_steps[Len(data) + j]) = analyses[j]
           /\ planner.result.required_actors
              = {plan_steps[i].actor_name : i \in 1..Len(plan_steps)}

\* a plan of two data steps and two analysis steps shared by two actors
C32_Witness ==
    /\ PlanMade
    /\ planner.result.kind = "plan"
    /\ Len(planner.required.data) = 2
    /\ Len(planner.required.analyses) = 2
    /\ Cardinality(planner.result.required_actors) = 2


\* ---- the router, continued
\* C33: the supervisor never routes to the actor that produced the latest
\* message: from the first actor turn on, the messages of a run come from
\* the customer and the organization specialist in strict alternation,
\* whatever keywords they hold.
C33_NeverSameActor ==
    /\ (router.pc = "routed" /\ router.next # "FINISH")
       => /\ router.next \in ActorNames
          /\ router.next # LastMessage.name
    /\ \A i \in 2..Len(router.messages) :
          /\ router.messages[i].name \in ActorNames
          /\ i > 2 => router.messages[i].name # router.messages[i - 1].name

\* the supervisor routes away from the actor whose message names its own
\* subject and not the other actor's
C33_Witness ==
    /\ router.pc = "routed"
    /\ router.turns = 2
    /\ LastMessage.name = "organization_specialist"
    /\ Mentions(LastMessage, {"organization", "company"})
    /\ ~Mentions(LastMessage, {"customer", "individual"})
    /\ router.next = "customer_specialist"


\* ---- the context, continued
\* the records of actor a that carry a thread id
WithThread(ctx, a) ==
    SelectSeq(ctx.actor_results[a], LAMBDA r : Get(r, "thread_id") # None)

\* C34: in every context an actor has a thread id in threads only if it
\* has at least one record in actor_results, and every record of the actor
\* that carries a thread id carries the one stored in threads for it.
C34_ThreadsMatchRecords ==
    \A a \in ActorNames :
        /\ context.threads[a] # None => context.actor_results[a] # <<>>
        /\ \A i \in 1..Len(WithThread(context, a)) :
              WithThread(context, a)[i].thread_id = context.threads[a]

\* an actor whose first record carries no thread id and whose two later
\* records carry the stored one
C34_Witness ==
    \E a \in ActorNames :
        /\ Len(context.actor_results[a]) >= 3
        /\ Get(context.actor_results[a][1], "thread_id") = None
        /\ Len(WithThread(context, a)) >= 2
        /\ context.threads[a] # None


\* t is the end of s
IsSuffix(t, s) ==
    Len(t) <= Len(s) /\ SubSeq(s, Len(s) - Len(t) + 1, Len(s)) = t

\* the call was aborted by the exception of the agent run of step call.i
StepAborted ==
    /\ call.pc = "raised"
    /\ call.i <= Len(call.plan)
    /\ call.exc # KeyError

\* the steps before step k of the plan that actor a ran
StepsBefore(k, a) == {j \in 1..(k - 1) : call.plan[j].actor = a}

\* C35: when the agent run of step k raises, the context after the aborted
\* call holds what steps 1..k-1 of the call wrote (their records, their
\* history entries, the thread ids they stored) on top of what it held
\* before, and nothing of step k: no record, no history entry, no thread id.
C35_AbortKeepsEarlierSteps ==
    StepAborted =>
        /\ \A a \in ActorNames :
              /\ Len(written.actor_results[a]) = Cardinality(StepsBefore(call.i, a))
              /\ IsSuffix(written.actor_results[a], context.actor_results[a])
              /\ written.threads[a] # None
                 => /\ context.threads[a] = written.threads[a]
                    /\ StepsBefore(call.i, a) # {}
              /\ context.threads[a] # None
                 => \E r \in Range(context.actor_results[a]) :
                       Get(r, "thread_id") = context.threads[a]
        /\ written.history
           = IF version = 2
             THEN [j \in 1..(call.i - 1) |-> <<call.plan[j].actor, call.plan[j].task>>]
             ELSE <<>>
        /\ IsSuffix(written.history, context.history)

\* the second step of a plan raised after the first one had stored a
\* record and a thread id for another actor
C35_Witness ==
    /\ StepAborted
    /\ call.i = 2
    /\ call.plan[1].actor # call.plan[2].actor
    /\ written.threads[call.plan[1].actor] # None
    /\ Len(context.actor_results[call.plan[1].actor]) = 1
    /\ context.actor_results[call.plan[2].actor] = <<>>
    /\ context.threads[call.plan[2].actor] = None
    /\ created[call.plan[2].actor] = 1


\* ---- the agent, continued
\* C36: for every max_retries >= 0 the retry counter of the polling loop
\* (v1) only counts up, by one per error, over the whole call (a poll
\* without error leaves it as it is), never exceeds max_retries, and the
\* call raises at the poll that brings the counter to max_retries.
C36_RetryCounter ==
    [][ (version = 1 /\ run.pc = "poll")
        => /\ run'.retries \in {run.retries, run.retries + 1}
           /\ run'.retries <= run'.max_retries
           /\ (run'.retries = run'.max_retries /\ run'.retries # run.retries)
              => (run'.pc = "raised" /\ IsMaxRetries(run'.exc)) ]_vars


\* the ids of uploads number m+1 .. n of agent a
UploadedIds(a, m, n) == {FileId(a, j) : j \in (m + 1)..n}

\* a step that is a cleanup() of the stand-alone agent
SoloCleanupDone == lastCleanup' # lastCleanup /\ lastCleanup'.kind = "actor"

\* C37: every file id a successful upload returned is in the agent's file
\* mapping from then on until the next cleanup, also when initialize aborts
\* partway and when a later run_analysis or initialize uploads again; a
\* failed upload adds nothing.  So the mapping holds exactly the uploads
\* made since the previous cleanup, and cleanup attempts a delete for each.
C37_UploadsMapped ==
    [][ LET before == MappingIds(agents[Solo])
            after == MappingIds(agents'[Solo])
            new == UploadedIds(Solo, backend.files[Solo], backend'.files[Solo])
        IN  /\ Range(before)
               = UploadedIds(Solo, backend.files[Solo] - Len(before), backend.files[Solo])
            /\ IF SoloCleanupDone
               THEN /\ lastCleanup'.attempted = before
                    /\ new = {}
               ELSE /\ IsPrefix(before, after)
                    /\ Range(after) = Range(before) \cup new
                    /\ Len(after) = Len(before) + Cardinality(new) ]_vars

\* a cleanup attempted the file of an initialize that aborted after one
\* upload and the two files of the initialize that followed
C37_Witness ==
    /\ lastCleanup.kind = "actor"
    /\ Len(lastCleanup.attempted) = Len(Files(Solo)) + 1
    /\ backend.files[Solo] = Len(Files(Solo)) + 1
    /\ agents[Solo].assistant_id # None


\* ---- the planner, continued
\* the keys of the dict actor_capabilities, in its iteration order
DictNames(d) == [i \in 1..Len(d) |-> d[i].name]

\* a register_actor call was made
Registered == planner'.regs # planner.regs

\* C38: register_actor on a name that is already registered replaces the
\* capabilities of that actor and of no other, and keeps the set of
\* registered names and their order, so that the actor keeps its place in
\* the matching order of the planner.
C38_ReRegisterKeepsPlace ==
    [][ (Registered
         /\ planner'.regs[Len(planner'.regs)].name \in Range(DictNames(planner.actor_capabilities)))
        => LET reg == planner'.regs[Len(planner'.regs)]
               old == planner.actor_capabilities
               new == planner'.actor_capabilities
           IN  /\ DictNames(new) = DictNames(old)
               /\ \A i \in 1..Len(new) :
                     new[i].capabilities = IF old[i].name = reg.name
                                           THEN reg.capabilities
                                           ELSE old[i].capabilities
               /\ \A dt \in reg.capabilities.supported_data_types :
                     LET was == {i \in 1..Len(old) :
                                   old[i].name # reg.name
                                   /\ dt \in old[i].capabilities.supported_data_types}
                         place == CHOOSE i \in 1..Len(old) : old[i].name = reg.name
                     IN  FindBestActorForData(new, dt).name
                         = IF was # {} /\ SetMin(was) < place
                           THEN old[SetMin(was)].name ELSE reg.name ]_vars

\* the actor registered first was registered again with other
\* capabilities after a second actor, and is still the first item
C38_Witness ==
    /\ Len(planner.regs) = 3
    /\ planner.regs[1].name = planner.regs[3].name
    /\ planner.regs[2].name # planner.regs[1].name
    /\ planner.regs[1].capabilities # planner.regs[3].capabilities
    /\ Len(planner.actor_capabilities) = 2
    /\ planner.actor_capabilities[1]
       = [name |-> planner.regs[3].name, capabilities |-> planner.regs[3].capabilities]


\* ---- the router, continued
\* cleanup() was called exactly once on each actor of the router
CleanedOnceEach(cleaned) ==
    /\ Len(cleaned) = Cardinality(ActorNames)
    /\ Range(cleaned) = ActorNames

\* C39: every run() of the router that ends, ends with one cleanup() call
\* on each of its actors, and with none before: a run whose graph reached
\* FINISH returns after it, and a run in which an actor turn raised passes
\* the exception on to its caller after it.
C39_RunEndsWithCleanup ==
    [][ /\ router.pc = "failing"
           => /\ router'.pc = "raised"
              /\ CleanedOnceEach(router'.cleaned)
              /\ \A a \in ActorNames : agents'[a].file_mapping = <<>>
        /\ (router.pc = "routed" /\ router.next = "FINISH")
           => /\ router'.pc = "done"
              /\ CleanedOnceEach(router'.cleaned)
              /\ \A a \in ActorNames : agents'[a].file_mapping = <<>>
        /\ (router'.pc \in {"done", "raised"} /\ router'.pc # router.pc)
           => \/ router.pc = "failing"
              \/ router.pc = "routed" /\ router.next = "FINISH"
        /\ router'.pc \notin {"done", "raised"} => router'.cleaned = <<>> ]_vars

\* a run ended by the exception of its second actor turn, after both
\* actors had been initialized: both were cleaned up
C39_Witness ==
    /\ router.pc = "raised"
    /\ router.turns = 2
    /\ CleanedOnceEach(router.cleaned)
    /\ \A a \in ActorNames : agents[a].assistant_id # None /\ agents[a].file_mapping = <<>>


============================================================================
